---- MODULE Spec2Model ----
(***************************************************************************)
(* Storage engine and request orchestrator of archie-backend.              *)
(*                                                                         *)
(* The store is the two tables of database.py (ai_assistant_conversation,  *)
(* ai_assistant_message) as the relational server keeps them: primary keys  *)
(* are unique, NOT NULL columns reject NULL, and the foreign key            *)
(* message.conversation_id -> conversation.conversation_id is enforced.     *)
(* A table is a function from the stored primary keys to rows.             *)
(***************************************************************************)
EXTENDS Integers, Sequences, FiniteSets, TLC

VARIABLES
    convs,      \* table ai_assistant_conversation: conversation_id -> row
    msgs,       \* table ai_assistant_message: message_id -> row
    now,        \* latest value datetime.now(timezone.utc) has returned
    last,       \* the call that ran last and how it ended
    pc,         \* per worker: position inside a storage call in progress
    arg,        \* per worker: the message handed to the call in progress
    got,        \* per worker: what session.get returned for the message
    res,        \* per worker: how the worker's call ended
    view,       \* what the read request or function call that ran last was
                \* given and has returned
    tx,         \* per worker: the messages its open transaction has deleted
    cache,      \* the Redis keyspace: key -> the entry stored under it
    upd         \* per worker: its update_user_state call in progress

vars == <<convs, msgs, now, last, pc, arg, got, res, view, tx, cache, upd>>

----------------------------------------------------------------------------
(* Bounds *)

MaxTime == 1        \* the clock takes the values 0..MaxTime

Times == 0..MaxTime

----------------------------------------------------------------------------
(* Values *)

None == "None"                     \* Python None / SQL NULL of a string field
ConvIds == {"c1", "c2"}
MsgIds == {"m1", "m2"}
Workers == {"w1", "w2"}

DefaultTitle == "New Conversation"

\* A Python dict | None: the items of the dict in insertion order.
NoDict == [isNone |-> TRUE, items |-> <<>>]
Dict(items) == [isNone |-> FALSE, items |-> items]

\* bool(d) of a dict | None: None and the empty dict are falsy.
Truthy(d) == ~d.isNone /\ Len(d.items) > 0

\* A nullable JSON column: NULL or the stored JSON text (a token sequence).
Null == [isNull |-> TRUE, text |-> <<>>]
Json(text) == [isNull |-> FALSE, text |-> text]

RECURSIVE DumpItems(_)
DumpItems(items) ==
    IF items = <<>> THEN <<>>
    ELSE <<Head(items)[1], ":", Head(items)[2]>>
         \o (IF Len(items) > 1 THEN <<",">> ELSE <<>>)
         \o DumpItems(Tail(items))

\* json.dumps of a dict: "{" k ":" v "," ... "}"
json_dumps(d) == <<"{">> \o DumpItems(d.items) \o <<"}">>

RECURSIVE LoadItems(_)
LoadItems(toks) ==
    IF Len(toks) < 3 THEN <<>>
    ELSE <<  <<toks[1], toks[3]>>  >>
         \o LoadItems(SubSeq(toks, IF Len(toks) > 3 THEN 5 ELSE 4, Len(toks)))

\* json.loads of a JSON object text
json_loads(text) == Dict(LoadItems(SubSeq(text, 2, Len(text) - 1)))

\* LllmTrace | None
NoTrace ==
    [isNone |-> TRUE, model |-> None, input_tokens |-> 0, cached_tokens |-> 0,
     output_tokens |-> 0, reasoning_tokens |-> 0, total_tokens |-> 0,
     total_cost |-> 0]
Trace1 ==
    [isNone |-> FALSE, model |-> "gpt", input_tokens |-> 3, cached_tokens |-> 1,
     output_tokens |-> 2, reasoning_tokens |-> 1, total_tokens |-> 5,
     total_cost |-> 7]

\* LllmTrace.model_dump_json()
model_dump_json(t) ==
    <<"model", t.model, "input_tokens", t.input_tokens,
      "cached_tokens", t.cached_tokens, "output_tokens", t.output_tokens,
      "reasoning_tokens", t.reasoning_tokens, "total_tokens", t.total_tokens,
      "total_cost", t.total_cost>>

\* LllmTrace(**json.loads(blob))
trace_loads(text) ==
    [isNone |-> FALSE, model |-> text[2], input_tokens |-> text[4],
     cached_tokens |-> text[6], output_tokens |-> text[8],
     reasoning_tokens |-> text[10], total_tokens |-> text[12],
     total_cost |-> text[14]]

\* The message bodies the calls are tried with (everything of a ChatMessage
\* but its message_id and conversation_id).
Contents == {
    [role |-> "user", text_format |-> "plain", text |-> "hi",
     metadata |-> NoDict, created_at |-> 0,
     previous_message_id |-> None, model |-> None, llm_trace |-> NoTrace],
    [role |-> "assistant", text_format |-> "markdown", text |-> "**yo**",
     metadata |-> Dict(<< <<"k", "v">> >>), created_at |-> 1,
     previous_message_id |-> "m1", model |-> "archie", llm_trace |-> Trace1],
    [role |-> "user", text_format |-> "plain", text |-> "hi",
     metadata |-> Dict(<<>>), created_at |-> 0,
     previous_message_id |-> None, model |-> None, llm_trace |-> NoTrace] }

\* archie_shared.chat.models.ChatMessage(message_id, conversation_id, **content),
\* the message class the storage engine is written against
ChatMessage(mid, cid, c) ==
    [class |-> "archie_shared.chat.models.ChatMessage",
     message_id |-> mid, conversation_id |-> cid, role |-> c.role,
     text_format |-> c.text_format, text |-> c.text, metadata |-> c.metadata,
     created_at |-> c.created_at,
     previous_message_id |-> c.previous_message_id, model |-> c.model,
     llm_trace |-> c.llm_trace]

Messages == {ChatMessage(mid, cid, c) :
                mid \in MsgIds, cid \in ConvIds \cup {None}, c \in Contents}

\* Aggregated usage totals of a conversation
ZeroTotals ==
    [total_input_tokens |-> 0, total_output_tokens |-> 0,
     total_tokens |-> 0, total_cost |-> 0]
SomeTotals ==
    [total_input_tokens |-> 3, total_output_tokens |-> 2,
     total_tokens |-> 5, total_cost |-> 7]

\* A row of ai_assistant_conversation
SQLAConversation(cid, title, created_at, updated_at, totals) ==
    [conversation_id |-> cid, title |-> title, created_at |-> created_at,
     updated_at |-> updated_at,
     total_input_tokens |-> totals.total_input_tokens,
     total_output_tokens |-> totals.total_output_tokens,
     total_tokens |-> totals.total_tokens,
     total_cost |-> totals.total_cost]

\* app.models.ChatMessage as the orchestrator builds it from a request: the
\* class has no previous_message_id and no model attribute, llm_trace is None
\* and created_at comes from the default factory (the clock reading t).
LocalChatMessage(mid, cid, c, t) ==
    [class |-> "app.models.ChatMessage",
     message_id |-> mid, conversation_id |-> cid, role |-> c.role,
     text_format |-> c.text_format, text |-> c.text, metadata |-> c.metadata,
     created_at |-> t,
     previous_message_id |-> None, model |-> None, llm_trace |-> NoTrace]

\* The attributes both converters read exist on the message's class
HasStorageAttributes(message) ==
    message.class = "archie_shared.chat.models.ChatMessage"

\* The record of a call: its name, the conversation and message it was about,
\* how it ended, whether it created a conversation row and whether it
\* overwrote or deleted stored message rows.
Call(op, cid, mid, result, created, touched) ==
    [op |-> op, cid |-> cid, mid |-> mid, result |-> result,
     created |-> created, touched |-> touched]
Idle == Call("none", None, None, "none", FALSE, FALSE)

----------------------------------------------------------------------------
(* Rows and constraints *)

\* metadata_json as both converters compute it: json.dumps for a non-empty
\* dict, else NULL (a plain dict has no model_dump).
metadata_json_of(message) ==
    IF Truthy(message.metadata) THEN Json(json_dumps(message.metadata))
    ELSE Null

llm_trace_of(message) ==
    IF ~message.llm_trace.isNone THEN Json(model_dump_json(message.llm_trace))
    ELSE Null

\* A row that takes the trace blob and leaves the flattened columns at
\* their defaults
create_with_blob_only(message) ==
    [message_id |-> message.message_id,
     conversation_id |-> message.conversation_id,
     role |-> message.role,
     text_format |-> message.text_format,
     text |-> message.text,
     metadata_json |-> metadata_json_of(message),
     created_at |-> message.created_at,
     previous_message_id |-> message.previous_message_id,
     model |-> message.model,
     llm_model |-> None,
     input_tokens |-> 0,
     input_cached_tokens |-> 0,
     output_tokens |-> 0,
     output_reasoning_tokens |-> 0,
     total_tokens |-> 0,
     total_cost |-> 0,
     llm_trace |-> llm_trace_of(message)]

_create_db_message_from_chat_message(message) ==
    [message_id |-> message.message_id,
     conversation_id |-> message.conversation_id,
     role |-> message.role,
     text_format |-> message.text_format,
     text |-> message.text,
     metadata_json |-> metadata_json_of(message),
     created_at |-> message.created_at,
     previous_message_id |-> message.previous_message_id,
     model |-> message.model,
     llm_model |-> IF ~message.llm_trace.isNone
                   THEN message.llm_trace.model ELSE None,
     input_tokens |-> IF ~message.llm_trace.isNone
                      THEN message.llm_trace.input_tokens ELSE 0,
     input_cached_tokens |-> IF ~message.llm_trace.isNone
                             THEN message.llm_trace.cached_tokens ELSE 0,
     output_tokens |-> IF ~message.llm_trace.isNone
                       THEN message.llm_trace.output_tokens ELSE 0,
     output_reasoning_tokens |-> IF ~message.llm_trace.isNone
                                 THEN message.llm_trace.reasoning_tokens ELSE 0,
     total_tokens |-> IF ~message.llm_trace.isNone
                      THEN message.llm_trace.total_tokens ELSE 0,
     total_cost |-> IF ~message.llm_trace.isNone
                    THEN message.llm_trace.total_cost ELSE 0,
     llm_trace |-> llm_trace_of(message)]

\* An update that writes nothing
update_nothing(db_message, message) == db_message

_update_db_message_from_chat_message(db_message, message) ==
    [db_message EXCEPT
     !.conversation_id = message.conversation_id,
     !.role = message.role,
     !.text_format = message.text_format,
     !.text = message.text,
     !.metadata_json = metadata_json_of(message),
     !.created_at = message.created_at,
     !.previous_message_id = message.previous_message_id,
     !.model = message.model,
     !.llm_model = IF ~message.llm_trace.isNone
                   THEN message.llm_trace.model ELSE None,
     !.input_tokens = IF ~message.llm_trace.isNone
                      THEN message.llm_trace.input_tokens ELSE 0,
     !.input_cached_tokens = IF ~message.llm_trace.isNone
                             THEN message.llm_trace.cached_tokens ELSE 0,
     !.output_tokens = IF ~message.llm_trace.isNone
                       THEN message.llm_trace.output_tokens ELSE 0,
     !.output_reasoning_tokens = IF ~message.llm_trace.isNone
                                 THEN message.llm_trace.reasoning_tokens ELSE 0,
     !.total_tokens = IF ~message.llm_trace.isNone
                      THEN message.llm_trace.total_tokens ELSE 0,
     !.total_cost = IF ~message.llm_trace.isNone
                    THEN message.llm_trace.total_cost ELSE 0,
     !.llm_trace = llm_trace_of(message)]

_create_chat_message_from_db_message(db_message) ==
    [message_id |-> db_message.message_id,
     conversation_id |-> db_message.conversation_id,
     role |-> db_message.role,
     text_format |-> db_message.text_format,
     text |-> db_message.text,
     metadata |-> IF ~db_message.metadata_json.isNull
                  THEN json_loads(db_message.metadata_json.text) ELSE NoDict,
     created_at |-> db_message.created_at,
     previous_message_id |-> db_message.previous_message_id,
     model |-> db_message.model,
     llm_trace |-> IF ~db_message.llm_trace.isNull
                   THEN trace_loads(db_message.llm_trace.text) ELSE NoTrace]

\* A column declared without its constraints
Unconstrained(cs, row) == TRUE

\* Message.conversation_id: NOT NULL, FOREIGN KEY to the conversation table.
\* A flush of the row is accepted iff the key names a row of cs.
ForeignKeyOk(cs, row) ==
    /\ row.conversation_id # None
    /\ row.conversation_id \in DOMAIN cs

\* session.get / add / update of one message row inside a session
\* An upsert that leaves a stored row as it is
InsertIfAbsent(ms, message) ==
    IF message.message_id \in DOMAIN ms THEN ms
    ELSE ms @@ (message.message_id :>
                   _create_db_message_from_chat_message(message))

UpsertMessage(ms, message) ==
    IF message.message_id \in DOMAIN ms
    THEN [ms EXCEPT ![message.message_id] =
             _update_db_message_from_chat_message(@, message)]
    ELSE ms @@ (message.message_id :>
                   _create_db_message_from_chat_message(message))

\* The row _ensure_conversation_exists builds
new_conversation(conversation_id, t1, t2) ==
    SQLAConversation(conversation_id, DefaultTitle, t1, t2, ZeroTotals)

\* An existence check that never inserts
ensure_nothing(cs, conversation_id, t1, t2) == cs

\* What _ensure_conversation_exists commits: nothing when the row exists,
\* else a default row stamped with two readings t1 <= t2 of the clock.
_ensure_conversation_exists(cs, conversation_id, t1, t2) ==
    IF conversation_id \in DOMAIN cs THEN cs
    ELSE cs @@ (conversation_id :> new_conversation(conversation_id, t1, t2))

----------------------------------------------------------------------------
(* Queries *)

\* A selection without its WHERE clause
AllMessages(ms, conversation_id) == DOMAIN ms

MessagesOf(ms, conversation_id) ==
    {m \in DOMAIN ms : ms[m].conversation_id = conversation_id}

\* Every order of the ids in S
Orders(S) ==
    {s \in [1..Cardinality(S) -> S] : \A i, j \in DOMAIN s : i # j => s[i] # s[j]}

\* An ORDER BY that is ascending whatever the flag
OrderedAscending(ms, S, order_desc) ==
    {s \in Orders(S) :
        \A i, j \in DOMAIN s : i < j =>
            ms[s[i]].created_at <= ms[s[j]].created_at}

\* The row orders ORDER BY created_at [DESC] allows: rows of equal created_at
\* come in whatever order the server yields them.
OrderedBy(ms, S, order_desc) ==
    {s \in Orders(S) :
        \A i, j \in DOMAIN s : i < j =>
            IF order_desc THEN ms[s[i]].created_at >= ms[s[j]].created_at
            ELSE ms[s[i]].created_at <= ms[s[j]].created_at}

\* The results get_conversation_history may return in store ms
get_conversation_history(ms, conversation_id, order_desc) ==
    {[i \in DOMAIN s |-> _create_chat_message_from_db_message(ms[s[i]])] :
        s \in OrderedBy(ms, MessagesOf(ms, conversation_id), order_desc)}

\* A lookup that finds whatever is asked for
AlwaysFound(cs, conversation_id) == TRUE

\* get_conversation_with_messages finds a conversation (is not None)
ConversationFound(cs, conversation_id) == conversation_id \in DOMAIN cs

\* No call yet / session.get returned None
NoMessage == ChatMessage(None, None, CHOOSE c \in Contents : c.metadata.isNone)
NotFound == [found |-> FALSE,
             row |-> _create_db_message_from_chat_message(NoMessage)]
Found(row) == [found |-> TRUE, row |-> row]

\* A read request and its response: the arguments, the sequence it returns
\* (body), the filename of its Content-Disposition header, and whether the
\* request ran the message query (the SELECT of get_conversation_history).
View(args, body, filename, message_query) ==
    [args |-> args, body |-> body, filename |-> filename,
     message_query |-> message_query]
NoView == View([order_desc |-> FALSE, limit |-> 0], <<>>, <<>>, FALSE)

----------------------------------------------------------------------------
(* Text normalizer (utils.py).                                             *)
(* A text is handled as the sequence of its characters; re.sub scans the   *)
(* text from left to right and replaces the leftmost matches, which do not *)
(* overlap.                                                                *)

\* The characters of the texts the model stores
Chars(text) ==
    CASE text = "hi" -> <<"h", "i">>
      [] text = "**yo**" -> <<"*", "*", "y", "o", "*", "*">>
      [] OTHER -> <<>>

Whitespace == {" ", "\n", "\t"}                                  \* \s

Backquote == "backquote"     \* the character U+0060 (no TLA+ string holds it)

Least(S) == CHOOSE x \in S : \A y \in S : x <= y
Greatest(S) == CHOOSE x \in S : \A y \in S : x >= y

\* Length of the longest run of characters from position i on that are in
\* chars (inside) or are not in chars (~inside): what a greedy character
\* class takes.
Run(s, i, chars, inside) ==
    LET stops == {j \in i..Len(s) : (s[j] \in chars) # inside}
    IN IF i > Len(s) THEN 0
       ELSE IF stops = {} THEN Len(s) - i + 1 ELSE Least(stops) - i

\* The literal lit stands at position i of s
HasAt(s, i, lit) ==
    /\ i >= 1
    /\ i + Len(lit) - 1 <= Len(s)
    /\ SubSeq(s, i, i + Len(lit) - 1) = lit

\* ^ and $ under re.MULTILINE
AtLineStart(s, i) == i = 1 \/ s[i - 1] = "\n"
AtLineEnd(s, i) == i = Len(s) + 1 \/ (i <= Len(s) /\ s[i] = "\n")

\* A pattern  open [^excl1]{min1,} mid ( [^excl2]{min2,} close )?  whose
\* replacement is group 1 (keep) or the empty text. Each class excludes the
\* first character of the literal that follows it, so the greedy run is the
\* only way to match.
Pattern(open, excl1, min1, mid, two, excl2, min2, close, keep) ==
    [open |-> open, excl1 |-> excl1, min1 |-> min1, mid |-> mid, two |-> two,
     excl2 |-> excl2, min2 |-> min2, close |-> close, keep |-> keep]
Delimited(open, excl, min, close, keep) ==
    Pattern(open, excl, min, close, FALSE, {}, 0, <<>>, keep)

Bold == Delimited(<<"*", "*">>, {"*"}, 1, <<"*", "*">>, TRUE)
Italic == Delimited(<<"*">>, {"*"}, 1, <<"*">>, TRUE)
BoldUnderscore == Delimited(<<"_", "_">>, {"_"}, 1, <<"_", "_">>, TRUE)
ItalicUnderscore == Delimited(<<"_">>, {"_"}, 1, <<"_">>, TRUE)
Link == Pattern(<<"[">>, {"]"}, 1, <<"]", "(">>, TRUE, {")"}, 1, <<")">>, TRUE)
AngleUrl == Delimited(<<"<">>, {">"}, 1, <<">">>, TRUE)
Image ==
    Pattern(<<"!", "[">>, {"]"}, 0, <<"]", "(">>, TRUE, {")"}, 1, <<")">>, FALSE)
\* The fenced block pattern, replaced by what lies between the fences
CodeBlockKept ==
    Delimited(<<Backquote, Backquote, Backquote>>, {Backquote}, 0,
              <<Backquote, Backquote, Backquote>>, TRUE)
CodeBlock ==
    Delimited(<<Backquote, Backquote, Backquote>>, {Backquote}, 0,
              <<Backquote, Backquote, Backquote>>, FALSE)
InlineCode == Delimited(<<Backquote>>, {Backquote}, 1, <<Backquote>>, TRUE)
HtmlTag == Delimited(<<"<">>, {">"}, 1, <<">">>, FALSE)

\* The match of pattern p at position i of s, if there is one: where the
\* scan goes on and what group 1 holds
MatchAt(s, i, p) ==
    LET a == i + Len(p.open)
        b == a + Run(s, a, p.excl1, FALSE)
        c == b + Len(p.mid)
        d == c + Run(s, c, p.excl2, FALSE)
    IN [ok |-> /\ HasAt(s, i, p.open)
               /\ b - a >= p.min1
               /\ HasAt(s, b, p.mid)
               /\ p.two => (d - c >= p.min2 /\ HasAt(s, d, p.close)),
        next |-> IF p.two THEN d + Len(p.close) ELSE c,
        group |-> IF b > a THEN SubSeq(s, a, b - 1) ELSE <<>>]

\* re.sub of pattern p by its group 1 or by the empty text, from position i on
RECURSIVE SubFrom(_, _, _)
SubFrom(s, i, p) ==
    IF i > Len(s) THEN <<>>
    ELSE LET m == MatchAt(s, i, p)
         IN IF m.ok
            THEN (IF p.keep THEN m.group ELSE <<>>) \o SubFrom(s, m.next, p)
            ELSE <<s[i]>> \o SubFrom(s, i + 1, p)

Sub(s, p) == SubFrom(s, 1, p)

\* Where the match of a line-anchored pattern that starts at i ends (the
\* position after it), or 0 when there is none.
\*   header     ^#{1,6}\s+          hr_dash   ^-{3,}$      hr_star  ^\*{3,}$
\*   quote      ^>\s*               bullet    ^[\s]*[-*+]\s+
\*   numbered   ^[\s]*\d+\.\s+
LineMatchEnd(s, i, kind) ==
    LET hashes == Run(s, i, {"#"}, TRUE)
        dashes == Run(s, i, {"-"}, TRUE)
        stars == Run(s, i, {"*"}, TRUE)
        lead == Run(s, i, Whitespace, TRUE)
        digits == Run(s, i + lead,                                   \* \d
                      {"0", "1", "2", "3", "4", "5", "6", "7", "8", "9"}, TRUE)
        after(j) == j + Run(s, j, Whitespace, TRUE)
    IN IF ~AtLineStart(s, i) THEN 0
       ELSE CASE kind = "header" ->
                   IF hashes >= 1 /\ hashes <= 6 /\ after(i + hashes) > i + hashes
                   THEN after(i + hashes) ELSE 0
              [] kind = "hr_dash" ->
                   IF dashes >= 3 /\ AtLineEnd(s, i + dashes)
                   THEN i + dashes ELSE 0
              [] kind = "hr_star" ->
                   IF stars >= 3 /\ AtLineEnd(s, i + stars)
                   THEN i + stars ELSE 0
              [] kind = "quote" ->
                   IF HasAt(s, i, <<">">>) THEN after(i + 1) ELSE 0
              [] kind = "bullet" ->
                   IF /\ i + lead <= Len(s)
                      /\ s[i + lead] \in {"-", "*", "+"}
                      /\ after(i + lead + 1) > i + lead + 1
                   THEN after(i + lead + 1) ELSE 0
              [] kind = "numbered" ->
                   IF /\ digits >= 1
                      /\ HasAt(s, i + lead + digits, <<".">>)
                      /\ after(i + lead + digits + 1) > i + lead + digits + 1
                   THEN after(i + lead + digits + 1) ELSE 0
              [] OTHER -> 0

\* re.sub(pattern, '', s, flags=re.MULTILINE) from position i on
RECURSIVE SubLineFrom(_, _, _)
SubLineFrom(s, i, kind) ==
    IF i > Len(s) THEN <<>>
    ELSE LET e == LineMatchEnd(s, i, kind)
         IN IF e > i THEN SubLineFrom(s, e, kind)
            ELSE <<s[i]>> \o SubLineFrom(s, i + 1, kind)

SubLine(s, kind) == SubLineFrom(s, 1, kind)

\* re.sub(r'\n\s*\n', '\n\n', s): from a line break to the last line break
\* of the whitespace that follows it
RECURSIVE NormalizeBreaksFrom(_, _)
NormalizeBreaksFrom(s, i) ==
    IF i > Len(s) THEN <<>>
    ELSE LET w == Run(s, i + 1, Whitespace, TRUE)
             breaks == {j \in (i + 1)..(i + w) : s[j] = "\n"}
         IN IF s[i] = "\n" /\ breaks # {}
            THEN <<"\n", "\n">> \o NormalizeBreaksFrom(s, Greatest(breaks) + 1)
            ELSE <<s[i]>> \o NormalizeBreaksFrom(s, i + 1)

\* re.sub(r'\s+', ' ', s)
RECURSIVE CollapseFrom(_, _)
CollapseFrom(s, i) ==
    IF i > Len(s) THEN <<>>
    ELSE IF s[i] \in Whitespace
         THEN <<" ">> \o CollapseFrom(s, i + Run(s, i, Whitespace, TRUE))
         ELSE <<s[i]>> \o CollapseFrom(s, i + 1)

\* str.strip()
strip(s) ==
    LET first == Run(s, 1, Whitespace, TRUE) + 1
        inner == {j \in 1..Len(s) : s[j] \notin Whitespace}
    IN IF inner = {} THEN <<>> ELSE SubSeq(s, first, Greatest(inner))

\* str.replace(lit, rep) from position i on
RECURSIVE ReplaceFrom(_, _, _, _)
ReplaceFrom(s, i, lit, rep) ==
    IF i > Len(s) THEN <<>>
    ELSE IF HasAt(s, i, lit)
         THEN rep \o ReplaceFrom(s, i + Len(lit), lit, rep)
         ELSE <<s[i]>> \o ReplaceFrom(s, i + 1, lit, rep)

\* The entity table of clean_html_to_plain, in the order of the dict
html_entities == <<
    << <<"&", "a", "m", "p", ";">>, <<"&">> >>,
    << <<"&", "l", "t", ";">>, <<"<">> >>,
    << <<"&", "g", "t", ";">>, <<">">> >>,
    << <<"&", "q", "u", "o", "t", ";">>, <<"\"">> >>,
    << <<"&", "#", "3", "9", ";">>, <<"'">> >>,
    << <<"&", "n", "b", "s", "p", ";">>, <<" ">> >> >>

RECURSIVE ReplaceEntities(_, _)
ReplaceEntities(s, k) ==
    IF k = 0 THEN s
    ELSE ReplaceFrom(ReplaceEntities(s, k - 1), 1,
                     html_entities[k][1], html_entities[k][2])

clean_html_to_plain(html_text) ==
    strip(CollapseFrom(
        ReplaceEntities(Sub(html_text, HtmlTag), Len(html_entities)), 1))

clean_markdown_to_plain(markdown_text) ==
    LET t1 == SubLine(markdown_text, "header")
        t2 == Sub(Sub(Sub(Sub(t1, Bold), Italic), BoldUnderscore),
                  ItalicUnderscore)
        t3 == Sub(Sub(t2, Link), AngleUrl)
        t4 == Sub(t3, Image)
        t5 == Sub(Sub(t4, CodeBlock), InlineCode)
        t6 == SubLine(SubLine(t5, "hr_dash"), "hr_star")
        t7 == SubLine(t6, "quote")
        t8 == SubLine(SubLine(t7, "bullet"), "numbered")
        t9 == NormalizeBreaksFrom(t8, 1)
    IN strip(CollapseFrom(t9, 1))

\* A normalizer that treats voice as markdown
clean_voice_as_markdown(text, text_format) ==
    IF text_format = "html" THEN clean_html_to_plain(text)
    ELSE IF text_format \in {"markdown", "voice"}
         THEN clean_markdown_to_plain(text)
    ELSE text

clean_text_to_plain(text, text_format) ==
    IF text_format = "html" THEN clean_html_to_plain(text)
    ELSE IF text_format = "markdown" THEN clean_markdown_to_plain(text)
    ELSE text

----------------------------------------------------------------------------
(* User-state cache *)

UserIds == {"u1", "u2"}

\* The fields of UserState, in the order of their declaration
StateFields ==
    <<"user_id", "user_name", "default_city", "persona",
      "current_date", "current_time", "current_weekday">>

\* UserState(**d): a field takes the value the dict gives it or its default
\* None, a key that is no field is ignored
UserState(d) ==
    [f \in {StateFields[i] : i \in DOMAIN StateFields} |->
        IF f \in DOMAIN d THEN d[f] ELSE None]

\* state.model_dump_json(): the fields in declaration order as a JSON object,
\* None written as null
state_model_dump_json(state) ==
    json_dumps(Dict([i \in DOMAIN StateFields |->
        <<StateFields[i],
          IF state[StateFields[i]] = None THEN "null"
          ELSE state[StateFields[i]]>>]))

\* f"user_state:{user_id}"
_get_user_key(user_id) == "user_state:" \o user_id

\* get_user_state: redis.get and, when the key holds data,
\* UserState(**json.loads(data)); None when it does not
get_user_state(keys, user_id) ==
    LET e == keys[_get_user_key(user_id)]
        items == json_loads(e.data).items
        state_dict ==
            [f \in {items[i][1] : i \in DOMAIN items} |->
                LET v == items[CHOOSE i \in DOMAIN items : items[i][1] = f][2]
                IN IF v = "null" THEN None ELSE v]
    IN IF e.present THEN [isNone |-> FALSE, state |-> UserState(state_dict)]
       ELSE [isNone |-> TRUE, state |-> UserState(<< >>)]

\* set_user_state: the key takes the JSON text of the state; setex gives it
\* the time to live when ttl is truthy, set clears the time to live (ttl 0)
set_user_state(keys, user_id, state, ttl) ==
    [keys EXCEPT ![_get_user_key(user_id)] =
        [present |-> TRUE, data |-> state_model_dump_json(state), ttl |-> ttl]]

\* The state update_user_state writes: the loaded state, or
\* UserState(user_id=user_id) when none was loaded, as a dict
\* (model_dump) with the updates applied (dict.update)
update_user_state(current_state, user_id, updates) ==
    LET state_dict == IF current_state.isNone
                      THEN UserState([user_id |-> user_id])
                      ELSE current_state.state
    IN UserState([f \in DOMAIN state_dict \cup DOMAIN updates |->
                     IF f \in DOMAIN updates THEN updates[f]
                     ELSE state_dict[f]])

----------------------------------------------------------------------------
Init ==
    /\ convs = << >>
    /\ msgs = << >>
    /\ now = 0
    /\ last = Idle
    /\ pc = [w \in Workers |-> "idle"]
    /\ arg = [w \in Workers |-> NoMessage]
    /\ got = [w \in Workers |-> NotFound]
    /\ res = [w \in Workers |-> "none"]
    /\ tx = [w \in Workers |-> {}]
    /\ cache = [k \in {_get_user_key(user_id) : user_id \in UserIds} |->
                   [present |-> FALSE, data |-> <<>>, ttl |-> 0]]
    /\ upd = [w \in Workers |->
                 [pc |-> "idle", user_id |-> None, updates |-> << >>, ttl |-> 0,
                  current_state |-> [isNone |-> TRUE, state |-> UserState(<< >>)],
                  result |-> "none"]]
    /\ view = NoView

----------------------------------------------------------------------------
(* Storage operations on a store (cs, ms) *)

\* save_message(message) on store (cs, ms); t1, t2 are the clock readings of
\* the implicit conversation creation. The conversation is committed by the
\* session of _ensure_conversation_exists before the message is looked up;
\* the message row is written only if the converter and the commit succeed.
\* A save_message that adds the usage of the message to the totals of its
\* conversation
save_message_adding_usage(cs, ms, message, t1, t2) ==
    LET cid == message.conversation_id
        cs1 == IF cid # None
               THEN _ensure_conversation_exists(cs, cid, t1, t2) ELSE cs
        ms1 == UpsertMessage(ms, message)
        result == IF ~HasStorageAttributes(message) THEN "AttributeError"
                  ELSE IF ~ForeignKeyOk(cs1, ms1[message.message_id])
                       THEN "IntegrityError" ELSE "ok"
    IN [convs |-> IF result = "ok"
                  THEN [cs1 EXCEPT ![cid].total_tokens =
                           @ + message.llm_trace.total_tokens]
                  ELSE cs1,
        msgs |-> IF result = "ok" THEN ms1 ELSE ms,
        result |-> result,
        created |-> DOMAIN cs1 # DOMAIN cs,
        touched |-> result = "ok" /\ message.message_id \in DOMAIN ms]

save_message(cs, ms, message, t1, t2) ==
    LET cid == message.conversation_id
        cs1 == IF cid # None
               THEN _ensure_conversation_exists(cs, cid, t1, t2) ELSE cs
        ms1 == UpsertMessage(ms, message)
        result == IF ~HasStorageAttributes(message) THEN "AttributeError"
                  ELSE IF ~ForeignKeyOk(cs1, ms1[message.message_id])
                       THEN "IntegrityError" ELSE "ok"
    IN [convs |-> cs1,
        msgs |-> IF result = "ok" THEN ms1 ELSE ms,
        result |-> result,
        created |-> DOMAIN cs1 # DOMAIN cs,
        touched |-> result = "ok" /\ message.message_id \in DOMAIN ms]

\* A creation without the existence check: the row is written over
create_or_replace(cs, conversation_id, title, t) ==
    [convs |-> [c \in DOMAIN cs \cup {conversation_id} |->
                   IF c = conversation_id
                   THEN SQLAConversation(conversation_id, title, t, t, ZeroTotals)
                   ELSE cs[c]],
     result |-> "ok"]

\* create_conversation(conversation_id, title) on store cs at clock reading t
create_conversation(cs, conversation_id, title, t) ==
    LET existing == conversation_id \in DOMAIN cs
    IN [convs |-> IF existing THEN cs
                  ELSE cs @@ (conversation_id :>
                                 SQLAConversation(conversation_id, title, t, t,
                                                  ZeroTotals)),
        result |-> IF existing THEN "ValueError" ELSE "ok"]

----------------------------------------------------------------------------
(* Calls, one at a time *)

\* The clock is read inside save_message only to stamp a conversation row
\* that is not stored yet; otherwise no reading is taken.
ClockReadings(conversation_id) ==
    IF conversation_id # None /\ conversation_id \notin DOMAIN convs
    THEN Times ELSE {now}

CallSaveMessage(message, t1, t2) ==
    LET r == save_message(convs, msgs, message, t1, t2)
    IN /\ t1 \in ClockReadings(message.conversation_id)
       /\ t2 \in ClockReadings(message.conversation_id)
       /\ now <= t1 /\ t1 <= t2
       /\ convs' = r.convs
       /\ msgs' = r.msgs
       /\ now' = IF r.created THEN t2 ELSE now
       /\ last' = Call("save_message", message.conversation_id,
                       message.message_id, r.result, r.created, r.touched)
       /\ view' = NoView
       /\ UNCHANGED <<pc, arg, got, res, tx, cache, upd>>

\* A session whose statements commit one by one
Autocommit(stored, pending, committed) == pending

\* How a session ends: commit makes the pending rows the stored ones; an
\* exception leaves the `with self.Session()` block, which closes the session
\* and rolls the transaction back.
SessionEnd(stored, pending, committed) ==
    IF committed THEN pending ELSE stored

\* The conversation row save_conversation writes (update of all columns of an
\* existing row, or a new row: the same values either way).
ConversationRow(conversation) ==
    SQLAConversation(conversation.conversation_id, conversation.title,
                     conversation.created_at, conversation.updated_at,
                     conversation.totals)

UpsertConversation(cs, conversation) ==
    IF conversation.conversation_id \in DOMAIN cs
    THEN [cs EXCEPT ![conversation.conversation_id] =
             ConversationRow(conversation)]
    ELSE cs @@ (conversation.conversation_id :> ConversationRow(conversation))

\* The message rows pending in the session of save_conversation after the
\* first k messages of the list went through the loop.
RECURSIVE PendingMessages(_, _, _)
PendingMessages(ms, conversation, k) ==
    IF k = 0 THEN ms
    ELSE UpsertMessage(PendingMessages(ms, conversation, k - 1),
                       [conversation.messages[k] EXCEPT
                           !.conversation_id = conversation.conversation_id])

\* The inputs save_conversation is tried with
ConversationSamples == {
    [title |-> "T", created_at |-> 0, updated_at |-> 1, totals |-> SomeTotals] }

\* Message lists: every order of every set of message ids, each message with
\* the body that carries metadata and a usage trace.
ListContents == {c \in Contents : Truthy(c.metadata)}

MessageLists ==
    UNION {{l \in [DOMAIN ids -> {ChatMessage(mid, None, c) :
                                    mid \in MsgIds, c \in ListContents}] :
               \A i \in DOMAIN ids : l[i].message_id = ids[i]} :
           ids \in UNION {Orders(S) : S \in SUBSET MsgIds}}

Conversations ==
    {[conversation_id |-> cid, title |-> s.title, created_at |-> s.created_at,
      updated_at |-> s.updated_at, totals |-> s.totals, messages |-> l] :
        cid \in ConvIds, s \in ConversationSamples, l \in MessageLists}

\* A save that replaces the messages of the conversation by its list: the
\* stored messages of the conversation that the list lacks are deleted
replace_conversation(conversation, done, committed) ==
    LET n == Len(conversation.messages)
        listed == {conversation.messages[i].message_id : i \in 1..n}
        kept == [m \in {k \in DOMAIN msgs :
                           \/ msgs[k].conversation_id #
                                 conversation.conversation_id
                           \/ k \in listed} |-> msgs[m]]
        cs == IF done >= 1 THEN UpsertConversation(convs, conversation)
              ELSE convs
        ms == PendingMessages(kept, conversation,
                              IF done >= 1 THEN done - 1 ELSE 0)
    IN /\ done \in 0..(n + 1)
       /\ committed => done = n + 1
       /\ convs' = SessionEnd(convs, cs, committed)
       /\ msgs' = SessionEnd(msgs, ms, committed)
       /\ last' = Call("save_conversation", conversation.conversation_id, None,
                       IF committed THEN "ok" ELSE "StorageError",
                       committed /\ conversation.conversation_id \notin DOMAIN convs,
                       committed /\ \E i \in 1..n :
                           conversation.messages[i].message_id \in DOMAIN msgs)
       /\ view' = NoView
       /\ UNCHANGED <<now, pc, arg, got, res, tx, cache, upd>>

\* save_conversation(conversation). The statements of the session are the
\* conversation upsert and one upsert per message; `done` of them ran before
\* the storage failed, or all ran and the commit went through (committed).
save_conversation(conversation, done, committed) ==
    LET n == Len(conversation.messages)
        cs == IF done >= 1 THEN UpsertConversation(convs, conversation)
              ELSE convs
        ms == PendingMessages(msgs, conversation,
                              IF done >= 1 THEN done - 1 ELSE 0)
    IN /\ done \in 0..(n + 1)
       /\ committed => done = n + 1
       /\ convs' = SessionEnd(convs, cs, committed)
       /\ msgs' = SessionEnd(msgs, ms, committed)
       /\ last' = Call("save_conversation", conversation.conversation_id, None,
                       IF committed THEN "ok" ELSE "StorageError",
                       committed /\ conversation.conversation_id \notin DOMAIN convs,
                       committed /\ \E i \in 1..n :
                           conversation.messages[i].message_id \in DOMAIN msgs)
       /\ view' = NoView
       /\ UNCHANGED <<now, pc, arg, got, res, tx, cache, upd>>

\* create_conversation(conversation_id, title); gen is the uuid4 drawn when
\* no id is given, t the clock reading.
CallCreateConversation(conversation_id, title, gen, t) ==
    LET cid == IF conversation_id = None THEN gen ELSE conversation_id
        r == create_conversation(convs, cid, title, t)
    IN /\ now <= t
       /\ now' = t
       /\ convs' = r.convs
       /\ last' = Call("create_conversation", cid, None, r.result,
                       r.result = "ok", FALSE)
       /\ view' = NoView
       /\ UNCHANGED <<msgs, pc, arg, got, res, tx, cache, upd>>

\* A delete of the conversation row only
delete_row_only(conversation_id) ==
    /\ convs' = [c \in DOMAIN convs \ {conversation_id} |-> convs[c]]
    /\ last' = Call("delete_conversation", conversation_id, None, "ok",
                    FALSE, MessagesOf(msgs, conversation_id) # {})
    /\ view' = NoView
       /\ UNCHANGED <<msgs, now, pc, arg, got, res, tx, cache, upd>>

\* delete_conversation(conversation_id): both DELETEs and the commit
delete_conversation(conversation_id) ==
    /\ msgs' = [m \in DOMAIN msgs \ MessagesOf(msgs, conversation_id) |-> msgs[m]]
    /\ convs' = [c \in DOMAIN convs \ {conversation_id} |-> convs[c]]
    /\ last' = Call("delete_conversation", conversation_id, None, "ok",
                    FALSE, MessagesOf(msgs, conversation_id) # {})
    /\ view' = NoView
       /\ UNCHANGED <<now, pc, arg, got, res, tx, cache, upd>>

----------------------------------------------------------------------------
(* Request orchestrator *)

\* POST /messages: create_new_message(request). request.conversation_id is
\* None or an id; gen_cid and gen_mid are the ids the generators return, t0
\* the clock reading of create_conversation and t1 that of the message's
\* created_at default.
create_new_message(request, gen_cid, gen_mid, t0, t1) ==
    LET given == request.conversation_id # None
        cid == IF given THEN request.conversation_id ELSE gen_cid
        c == create_conversation(convs, cid, DefaultTitle, t0)
        notFound == given /\ ~ConversationFound(convs, cid)
        conflict == ~given /\ c.result = "ValueError"
        cs == IF given THEN convs ELSE c.convs
        message == LocalChatMessage(gen_mid, cid, request.body, t1)
        s == save_message(cs, msgs, message, t1, t1)
        status == IF notFound THEN "404"
                  ELSE IF conflict THEN "500"
                  ELSE IF s.result = "ok" THEN "200" ELSE "500"
        reached == ~notFound /\ ~conflict
    IN /\ now <= t0 /\ t0 <= t1
       /\ convs' = IF reached THEN s.convs ELSE convs
       /\ msgs' = IF reached THEN s.msgs ELSE msgs
       /\ now' = IF notFound THEN now ELSE IF conflict THEN t0 ELSE t1
       /\ last' = Call("create_new_message", request.conversation_id,
                       IF status = "200" THEN gen_mid ELSE None, status,
                       reached /\ DOMAIN s.convs # DOMAIN convs,
                       reached /\ s.touched)
       /\ view' = NoView
       /\ UNCHANGED <<pc, arg, got, res, tx, cache, upd>>

\* POST /conversations: the status create_new_conversation answers with
\* when create_conversation has ended with result
create_new_conversation(result) ==
    IF result = "ok" THEN "200"
    ELSE IF result = "ValueError" THEN "400" ELSE "500"

\* MessageRequest: with or without conversation_id, the body with metadata
Requests ==
    {[conversation_id |-> cid, body |-> c] :
        cid \in ConvIds \cup {None}, c \in ListContents}

Next ==
    \/ \E message \in Messages, t1, t2 \in Times :
          CallSaveMessage(message, t1, t2)
    \/ \E conversation \in Conversations, done \in 0..(Cardinality(MsgIds) + 1),
          committed \in BOOLEAN :
            save_conversation(conversation, done, committed)
    \/ \E conversation_id \in ConvIds \cup {None}, title \in {DefaultTitle, "T"},
          t \in Times :
            \E gen \in IF conversation_id = None THEN ConvIds ELSE {None} :
                CallCreateConversation(conversation_id, title, gen, t)
    \/ \E conversation_id \in ConvIds : delete_conversation(conversation_id)
    \/ \E request \in Requests, gen_mid \in MsgIds, t1 \in Times :
          \E gen_cid \in IF request.conversation_id = None
                         THEN ConvIds ELSE {None},
             t0 \in IF request.conversation_id = None THEN Times ELSE {t1} :
              create_new_message(request, gen_cid, gen_mid, t0, t1)

Spec == Init /\ [][Next]_vars

----------------------------------------------------------------------------
(* Read requests *)

\* The arguments of a read request that are not an id
Args(order_desc, limit) == [order_desc |-> order_desc, limit |-> limit]
NoArgs == Args(FALSE, 0)

\* The limits the listings are tried with
Limits == 0..Cardinality(ConvIds)

\* The Conversation the storage engine builds from a row and a message list
ConversationModel(row, messages) ==
    [conversation_id |-> row.conversation_id, title |-> row.title,
     created_at |-> row.created_at, updated_at |-> row.updated_at,
     total_input_tokens |-> row.total_input_tokens,
     total_output_tokens |-> row.total_output_tokens,
     total_tokens |-> row.total_tokens, total_cost |-> row.total_cost,
     messages |-> messages]

\* The query without its LIMIT
RecentUnlimited(cs, limit) ==
    {o \in Orders(DOMAIN cs) :
        \A i, j \in DOMAIN o : i < j =>
            cs[o[i]].created_at >= cs[o[j]].created_at}

\* ORDER BY created_at DESC LIMIT limit on the conversation table: the id
\* sequences the server may yield
RecentConversations(cs, limit) ==
    {SubSeq(s, 1, IF limit < Len(s) THEN limit ELSE Len(s)) :
        s \in {o \in Orders(DOMAIN cs) :
                  \A i, j \in DOMAIN o : i < j =>
                      cs[o[i]].created_at >= cs[o[j]].created_at}}

\* The results list_conversations(limit) may return
list_conversations(cs, limit) == RecentConversations(cs, limit)

\* The results get_all_conversations(limit) may return
get_all_conversations(cs, limit) ==
    {[i \in DOMAIN s |-> ConversationModel(cs[s[i]], <<>>)] :
        s \in RecentConversations(cs, limit)}

\* The results get_conversation_history_for_agent may return
get_conversation_history_for_agent(ms, conversation_id) ==
    {[i \in DOMAIN s |-> [role |-> ms[s[i]].role, content |-> ms[s[i]].text]] :
        s \in OrderedBy(ms, MessagesOf(ms, conversation_id), FALSE)}

\* The results get_conversation_with_messages may return for a stored
\* conversation: the row with the newest-first history
get_conversation_with_messages(cs, ms, conversation_id) ==
    {ConversationModel(cs[conversation_id], h) :
        h \in get_conversation_history(ms, conversation_id, TRUE)}

CallGetConversationHistory(conversation_id, order_desc) ==
    \E h \in get_conversation_history(msgs, conversation_id, order_desc) :
        /\ view' = View(Args(order_desc, 0), h, <<>>, TRUE)
        /\ last' = Call("get_conversation_history", conversation_id, None,
                        "ok", FALSE, FALSE)
        /\ UNCHANGED <<convs, msgs, now, pc, arg, got, res, tx, cache, upd>>

CallGetConversationHistoryForAgent(conversation_id) ==
    \E h \in get_conversation_history_for_agent(msgs, conversation_id) :
        /\ view' = View(NoArgs, h, <<>>, TRUE)
        /\ last' = Call("get_conversation_history_for_agent", conversation_id,
                        None, "ok", FALSE, FALSE)
        /\ UNCHANGED <<convs, msgs, now, pc, arg, got, res, tx, cache, upd>>

CallListConversations(limit) ==
    \E ids \in list_conversations(convs, limit) :
        /\ view' = View(Args(FALSE, limit), ids, <<>>, FALSE)
        /\ last' = Call("list_conversations", None, None, "ok", FALSE, FALSE)
        /\ UNCHANGED <<convs, msgs, now, pc, arg, got, res, tx, cache, upd>>

\* GET /conversations
CallGetAllConversations(limit) ==
    \E conversations \in get_all_conversations(convs, limit) :
        /\ view' = View(Args(FALSE, limit), conversations, <<>>, FALSE)
        /\ last' = Call("get_all_conversations", None, None, "200", FALSE, FALSE)
        /\ UNCHANGED <<convs, msgs, now, pc, arg, got, res, tx, cache, upd>>

\* GET /conversations/{conversation_id}: get_conversation_with_messages,
\* then the messages of the result are replaced by the empty list
get_conversation_metadata(conversation_id) ==
    /\ IF ConversationFound(convs, conversation_id)
       THEN \E conversation \in
                get_conversation_with_messages(convs, msgs, conversation_id) :
              /\ view' = View(NoArgs,
                              <<[conversation EXCEPT !.messages = <<>>]>>,
                              <<>>, TRUE)
              /\ last' = Call("get_conversation_metadata", conversation_id,
                              None, "200", FALSE, FALSE)
       ELSE /\ view' = View(NoArgs, <<>>, <<>>, FALSE)
            /\ last' = Call("get_conversation_metadata", conversation_id,
                            None, "404", FALSE, FALSE)
    /\ UNCHANGED <<convs, msgs, now, pc, arg, got, res, tx, cache, upd>>

\* An export record that always carries the metadata
history_message_with_metadata(message) ==
    [role |-> message.role,
     text |-> clean_text_to_plain(Chars(message.text), message.text_format),
     metadata |-> message.metadata]

\* One record of the export: role, normalized text, and the metadata when
\* the message has some
history_message(message) ==
    IF Truthy(message.metadata)
    THEN [role |-> message.role,
          text |-> clean_text_to_plain(Chars(message.text),
                                       message.text_format),
          metadata |-> message.metadata]
    ELSE [role |-> message.role,
          text |-> clean_text_to_plain(Chars(message.text),
                                       message.text_format)]

\* GET /chat_history: get_chat_history_yaml(conversation_id)
get_chat_history_yaml(conversation_id) ==
    /\ IF ConversationFound(convs, conversation_id)
       THEN \E conversation \in
                get_conversation_with_messages(convs, msgs, conversation_id) :
              /\ view' = View(NoArgs,
                              [i \in DOMAIN conversation.messages |->
                                  history_message(conversation.messages[i])],
                              <<"chat_history_", conversation_id, ".yaml">>,
                              TRUE)
              /\ last' = Call("get_chat_history_yaml", conversation_id, None,
                              "200", FALSE, FALSE)
       ELSE /\ view' = View(NoArgs, <<>>, <<>>, FALSE)
            /\ last' = Call("get_chat_history_yaml", conversation_id, None,
                            "404", FALSE, FALSE)
    /\ UNCHANGED <<convs, msgs, now, pc, arg, got, res, tx, cache, upd>>


\* The slice without its truncation
SliceAll(messages, limit) == messages

\* messages[:limit] of a list: the first limit items when limit >= 0, all
\* but the last -limit items when limit < 0
SliceTo(messages, limit) ==
    SubSeq(messages, 1,
           IF limit < 0
           THEN (IF Len(messages) + limit > 0 THEN Len(messages) + limit ELSE 0)
           ELSE (IF limit < Len(messages) THEN limit ELSE Len(messages)))

\* GET /messages: get_messages_by_conversation(conversation_id, limit);
\* conversation_id is None when the request omits it
get_messages_by_conversation(conversation_id, limit) ==
    /\ IF conversation_id # None
       THEN \E messages \in
                get_conversation_history(msgs, conversation_id, FALSE) :
              view' = View(Args(FALSE, limit), SliceTo(messages, limit),
                           <<>>, TRUE)
       ELSE view' = View(Args(FALSE, limit), <<>>, <<>>, FALSE)
    /\ last' = Call("get_messages_by_conversation", conversation_id, None,
                    "200", FALSE, FALSE)
    /\ UNCHANGED <<convs, msgs, now, pc, arg, got, res, tx, cache, upd>>

\* The messages the store is filled with before it is read: m1 without
\* metadata, created at 0; m2 with metadata and a markdown text, created at 0
\* (as m1) or at 1 (later than m1)
ReadMessages ==
    {ChatMessage("m1", cid, c) :
        cid \in ConvIds, c \in {b \in Contents : b.metadata.isNone}}
    \cup {ChatMessage("m2", cid, [c EXCEPT !.created_at = t]) :
             cid \in ConvIds, c \in ListContents, t \in {0, 1}}

NextRead ==
    \/ \E message \in ReadMessages, t1, t2 \in Times :
          CallSaveMessage(message, t1, t2)
    \/ \E conversation_id \in ConvIds, order_desc \in BOOLEAN :
          CallGetConversationHistory(conversation_id, order_desc)
    \/ \E conversation_id \in ConvIds :
          CallGetConversationHistoryForAgent(conversation_id)
    \/ \E limit \in Limits : CallListConversations(limit)
    \/ \E limit \in Limits : CallGetAllConversations(limit)
    \/ \E conversation_id \in ConvIds :
          get_conversation_metadata(conversation_id)
    \/ \E conversation_id \in ConvIds : get_chat_history_yaml(conversation_id)
    \/ \E conversation_id \in ConvIds \cup {None}, limit \in -1 .. Cardinality(MsgIds) :
          get_messages_by_conversation(conversation_id, limit)

SpecRead == Init /\ [][NextRead]_vars

----------------------------------------------------------------------------
(* Concurrent save_message calls.                                          *)
(* Each worker (a server process with its own sessions) makes one call;    *)
(* the workers interleave between the statements they send to the server.  *)
(* A statement sees every row committed before it.                         *)

\* The call starts: with a conversation_id it goes to
\* _ensure_conversation_exists, else straight to session.get.
Begin(w, message) ==
    /\ pc[w] = "idle" /\ res[w] = "none"
    /\ arg' = [arg EXCEPT ![w] = message]
    /\ pc' = [pc EXCEPT ![w] = IF message.conversation_id # None
                               THEN "ensure" ELSE "get"]
    /\ UNCHANGED <<convs, msgs, now, last, got, res, view, tx, cache, upd>>

\* _ensure_conversation_exists: the existence query
EnsureQuery(w) ==
    /\ pc[w] = "ensure"
    /\ pc' = [pc EXCEPT ![w] = IF arg[w].conversation_id \in DOMAIN convs
                               THEN "get" ELSE "insert"]
    /\ UNCHANGED <<convs, msgs, now, last, arg, got, res, view, tx, cache, upd>>

\* _ensure_conversation_exists: session.add(new_conversation); commit. The
\* INSERT hits the primary key when the row was committed since the query;
\* the IntegrityError leaves save_message.
EnsureInsert(w, t1, t2) ==
    LET cid == arg[w].conversation_id
    IN /\ pc[w] = "insert"
       /\ now <= t1 /\ t1 <= t2
       /\ now' = t2
       /\ IF cid \in DOMAIN convs
          THEN /\ res' = [res EXCEPT ![w] = "UniqueViolation"]
               /\ pc' = [pc EXCEPT ![w] = "done"]
               /\ UNCHANGED convs
          ELSE /\ convs' = convs @@ (cid :> new_conversation(cid, t1, t2))
               /\ pc' = [pc EXCEPT ![w] = "get"]
               /\ UNCHANGED res
       /\ UNCHANGED <<msgs, last, arg, got, view, tx, cache, upd>>

\* session.get(SQLAMessage, message.message_id)
Get(w) ==
    /\ pc[w] = "get"
    /\ got' = [got EXCEPT ![w] = IF arg[w].message_id \in DOMAIN msgs
                                 THEN Found(msgs[arg[w].message_id])
                                 ELSE NotFound]
    /\ pc' = [pc EXCEPT ![w] = "commit"]
    /\ UNCHANGED <<convs, msgs, now, last, arg, res, view, tx, cache, upd>>

\* The UPDATE the unit of work emits for a loaded row: it sets the columns
\* whose new value differs from the loaded one and leaves the others as
\* they are stored now.
FlushUpdate(stored, loaded, new) ==
    [col \in DOMAIN stored |->
        IF new[col] # loaded[col] THEN new[col] ELSE stored[col]]

\* session.commit() of save_message: the flush of the update or insert. A
\* statement on a row that an open transaction has deleted waits for that
\* transaction to end.
Commit(w) ==
    LET message == arg[w]
        mid == message.message_id
        new == IF got[w].found
               THEN _update_db_message_from_chat_message(got[w].row, message)
               ELSE _create_db_message_from_chat_message(message)
        result == IF got[w].found
                  THEN IF mid \notin DOMAIN msgs THEN "StaleDataError"
                       ELSE IF ~ForeignKeyOk(convs, new) THEN "IntegrityError"
                       ELSE "ok"
                  ELSE IF mid \in DOMAIN msgs THEN "UniqueViolation"
                       ELSE IF ~ForeignKeyOk(convs, new) THEN "IntegrityError"
                       ELSE "ok"
    IN /\ pc[w] = "commit"
       /\ \A v \in Workers \ {w} : mid \notin tx[v]
       /\ msgs' = IF result # "ok" THEN msgs
                  ELSE IF got[w].found
                       THEN [msgs EXCEPT ![mid] =
                                FlushUpdate(@, got[w].row, new)]
                       ELSE msgs @@ (mid :> new)
       /\ res' = [res EXCEPT ![w] = result]
       /\ pc' = [pc EXCEPT ![w] = "done"]
       /\ UNCHANGED <<convs, now, last, arg, got, view, tx, cache, upd>>

NextConcurrent ==
    \/ \E w \in Workers, message \in Messages : Begin(w, message)
    \/ \E w \in Workers : EnsureQuery(w)
    \/ \E w \in Workers, t1, t2 \in Times : EnsureInsert(w, t1, t2)
    \/ \E w \in Workers : Get(w)
    \/ \E w \in Workers : Commit(w)

SpecConcurrent == Init /\ [][NextConcurrent]_vars

----------------------------------------------------------------------------
(* Concurrent POST /conversations requests.                                *)
(* Each worker handles one request for a given conversation_id and the     *)
(* default title; arg holds the id and the clock reading taken before the  *)
(* session opens.                                                          *)

\* create_conversation starts: created_at = datetime.now(timezone.utc)
BeginCreate(w, conversation_id, t) ==
    /\ pc[w] = "idle" /\ res[w] = "none"
    /\ now <= t
    /\ now' = t
    /\ arg' = [arg EXCEPT ![w] = [NoMessage EXCEPT
                                     !.conversation_id = conversation_id,
                                     !.created_at = t]]
    /\ pc' = [pc EXCEPT ![w] = "create_query"]
    /\ UNCHANGED <<convs, msgs, last, got, res, view, tx, cache, upd>>

\* The existence query; a row that is found raises ValueError
CreateQuery(w) ==
    /\ pc[w] = "create_query"
    /\ IF arg[w].conversation_id \in DOMAIN convs
       THEN /\ res' = [res EXCEPT ![w] = "ValueError"]
            /\ pc' = [pc EXCEPT ![w] = "done"]
       ELSE /\ pc' = [pc EXCEPT ![w] = "create_insert"]
            /\ UNCHANGED res
    /\ UNCHANGED <<convs, msgs, now, last, arg, got, view, tx, cache, upd>>

\* session.add(new_conversation); session.commit(). The INSERT hits the
\* primary key when the row was committed since the query; the
\* IntegrityError is rolled back and raised again.
CreateInsert(w) ==
    LET cid == arg[w].conversation_id
    IN /\ pc[w] = "create_insert"
       /\ IF cid \in DOMAIN convs
          THEN /\ res' = [res EXCEPT ![w] = "UniqueViolation"]
               /\ UNCHANGED convs
          ELSE /\ convs' = convs @@
                     (cid :> SQLAConversation(cid, DefaultTitle,
                                              arg[w].created_at,
                                              arg[w].created_at, ZeroTotals))
               /\ res' = [res EXCEPT ![w] = "ok"]
       /\ pc' = [pc EXCEPT ![w] = "done"]
       /\ UNCHANGED <<msgs, now, last, arg, got, view, tx, cache, upd>>

NextConcurrentCreate ==
    \/ \E w \in Workers, conversation_id \in ConvIds, t \in Times :
          BeginCreate(w, conversation_id, t)
    \/ \E w \in Workers : CreateQuery(w)
    \/ \E w \in Workers : CreateInsert(w)

SpecConcurrentCreate == Init /\ [][NextConcurrentCreate]_vars

----------------------------------------------------------------------------
(* ID generator (utils.py) and POST /conversations.                        *)
(* The ids the code generates are the strings it builds.                   *)

\* uuid.uuid4() values: the first 8 characters of their text, and the rest
Uuid4s == {[head |-> "8d0f1a2b", rest |-> "-4c3d-4e5f-9a6b-7c8d9e0f1a2b"],
           [head |-> "0a1b2c3d", rest |-> "-5e6f-4a7b-8c9d-0e1f2a3b4c5d"]}

\* str(u) of a uuid u
str(u) == u.head \o u.rest

\* now.strftime("%Y%m%d%H%M%S") at clock reading t
strftime(t) == "2024010100000" \o ToString(t)

\* generate_id_with_timestamp(prefix) at clock reading t, drawing uuid u:
\* str(u)[:8] is u.head
generate_id_with_timestamp(prefix, t, u) ==
    prefix \o "-" \o strftime(t) \o "-" \o u.head


\* POST /conversations: create_new_conversation(request) hands
\* request.conversation_id and `request.title or "New Conversation"` to
\* create_conversation, which takes str(u) of a fresh uuid u as the id when
\* it gets none; result is the status of the response
CallCreateNewConversation(conversation_id, title, u, t) ==
    LET cid == IF conversation_id = None THEN str(u) ELSE conversation_id
        r == create_conversation(convs, cid,
                                 IF title = None THEN DefaultTitle ELSE title,
                                 t)
    IN /\ now <= t
       /\ now' = t
       /\ convs' = r.convs
       /\ last' = Call("create_new_conversation", cid, None,
                       create_new_conversation(r.result), r.result = "ok",
                       FALSE)
       /\ view' = NoView
       /\ UNCHANGED <<msgs, pc, arg, got, res, tx, cache, upd>>

\* The messages saved between the requests
CreateMessages ==
    {ChatMessage("m1", cid, c) :
        cid \in ConvIds, c \in {b \in Contents : b.metadata.isNone}}

NextCreate ==
    \/ \E conversation_id \in ConvIds \cup {None}, title \in {None, "T"},
          u \in Uuid4s, t \in Times :
            CallCreateNewConversation(conversation_id, title, u, t)
    \/ \E conversation_id \in ConvIds \cup {str(u) : u \in Uuid4s} :
          delete_conversation(conversation_id)
    \/ \E message \in CreateMessages, t1, t2 \in Times :
          CallSaveMessage(message, t1, t2)

SpecCreate == Init /\ [][NextCreate]_vars

----------------------------------------------------------------------------
(* Calls of the text normalizer on its own.                                *)
(* The call starts with view.args holding the text it is given; the step   *)
(* of the call takes the format and leaves the result in view.body.        *)

\* Plain text around a piece of markup
Pads == {<<>>, <<"x">>, <<"x", " ">>, <<" ", "y">>}

\* ![alt](url), the alt text possibly empty
ImageMarkup ==
    {<<"!", "[">> \o alt \o <<"]", "(">> \o <<"u">> \o <<")">> :
        alt \in {<<>>, <<"a">>, <<"a", "a">>}}

\* Inline code around the inner text x
InlineCodeOf(x) == <<Backquote>> \o x \o <<Backquote>>

\* A fenced block around the content k
FencedBlockOf(k) ==
    <<Backquote, Backquote, Backquote>> \o k
       \o <<Backquote, Backquote, Backquote>>

CodeTexts == {<<"c">>, <<"c", "d">>, <<"c", " ", "d">>}
BlockContents == {<<"k">>, <<"\n", "k", "\n">>, <<"p", "\n", "k", "\n">>}

\* Other markup and text
OtherMarkup ==
    {<<"[", "t", "]", "(", "w", ")">>,
     <<"*", "*", "b", "*", "*">>,
     <<"_", "i", "_">>,
     <<"<", "b", ">">>,
     <<"&", "a", "m", "p", ";">>,
     <<"#", " ", "h">>,
     <<"-", " ", "l">>,
     <<"p">>}

\* The texts the normalizer is called with
Texts ==
    {l \o f \o r :
        l \in Pads, r \in Pads,
        f \in ImageMarkup \cup {InlineCodeOf(x) : x \in CodeTexts}
                 \cup {FencedBlockOf(k) : k \in BlockContents}
                 \cup OtherMarkup}

\* The formats of a message
TextFormats == {"plain", "markdown", "html", "voice"}

TextArgs(text, text_format) == [text |-> text, text_format |-> text_format]

InitNormalize ==
    /\ convs = << >>
    /\ msgs = << >>
    /\ now = 0
    /\ last = Idle
    /\ pc = [w \in Workers |-> "idle"]
    /\ arg = [w \in Workers |-> NoMessage]
    /\ got = [w \in Workers |-> NotFound]
    /\ res = [w \in Workers |-> "none"]
    /\ tx = [w \in Workers |-> {}]
    /\ cache = [k \in {_get_user_key(user_id) : user_id \in UserIds} |->
                   [present |-> FALSE, data |-> <<>>, ttl |-> 0]]
    /\ upd = [w \in Workers |->
                 [pc |-> "idle", user_id |-> None, updates |-> << >>, ttl |-> 0,
                  current_state |-> [isNone |-> TRUE, state |-> UserState(<< >>)],
                  result |-> "none"]]
    /\ \E text \in Texts : view = View(TextArgs(text, None), <<>>, <<>>, FALSE)

CallCleanTextToPlain(text_format) ==
    /\ last.op = "none"
    /\ view' = View(TextArgs(view.args.text, text_format),
                    clean_text_to_plain(view.args.text, text_format),
                    <<>>, FALSE)
    /\ last' = Call("clean_text_to_plain", None, None, "ok", FALSE, FALSE)
    /\ UNCHANGED <<convs, msgs, now, pc, arg, got, res, tx, cache, upd>>

\* The formats of a message, and one that is none of them
NextNormalize ==
    \E text_format \in TextFormats \cup {"rtf"} : CallCleanTextToPlain(text_format)

SpecNormalize == InitNormalize /\ [][NextNormalize]_vars

----------------------------------------------------------------------------
(* Construction of messages (models.py).                                   *)
(* The keyword arguments of a constructor are a record that holds the      *)
(* fields the caller gives; view.args holds them and the step of the       *)
(* constructor leaves the message, if one is made, in view.body.           *)

Roles == {"user", "assistant", "system"}

\* A field check that accepts every value
AnyValue(value, allowed) == TRUE

\* Literal[...]: the value is one of the listed ones, compared exactly
Literal(value, allowed) == value \in allowed

\* The keyword arguments tried: role and text_format given or not, with the
\* listed values, values that differ from a listed one by case, other
\* values, and None
RoleArgs == Roles \cup {"User", "tool", None}
TextFormatArgs == TextFormats \cup {"Plain", "text", None}
Fields ==
    {[text |-> "hi"]} \cup
    {[text |-> "hi", role |-> r] : r \in RoleArgs} \cup
    {[text |-> "hi", text_format |-> f] : f \in TextFormatArgs} \cup
    {[text |-> "hi", role |-> r, text_format |-> f] :
        r \in RoleArgs, f \in TextFormatArgs} \cup
    {[text |-> "hi", role |-> r, text_format |-> f, conversation_id |-> "c1"] :
        r \in RoleArgs, f \in TextFormatArgs}

\* The field of the keyword arguments, or its default
FieldOr(fields, name, default) ==
    IF name \in DOMAIN fields THEN fields[name] ELSE default

\* The validation both classes run: role is required
Validates(fields) ==
    /\ "role" \in DOMAIN fields
    /\ Literal(fields.role, Roles)
    /\ "text_format" \in DOMAIN fields =>
          Literal(fields.text_format, TextFormats)

InitConstruct ==
    /\ convs = << >>
    /\ msgs = << >>
    /\ now = 0
    /\ last = Idle
    /\ pc = [w \in Workers |-> "idle"]
    /\ arg = [w \in Workers |-> NoMessage]
    /\ got = [w \in Workers |-> NotFound]
    /\ res = [w \in Workers |-> "none"]
    /\ tx = [w \in Workers |-> {}]
    /\ cache = [k \in {_get_user_key(user_id) : user_id \in UserIds} |->
                   [present |-> FALSE, data |-> <<>>, ttl |-> 0]]
    /\ upd = [w \in Workers |->
                 [pc |-> "idle", user_id |-> None, updates |-> << >>, ttl |-> 0,
                  current_state |-> [isNone |-> TRUE, state |-> UserState(<< >>)],
                  result |-> "none"]]
    /\ \E fields \in Fields : view = View(fields, <<>>, <<>>, FALSE)

\* MessageRequest(**fields)
ConstructMessageRequest ==
    /\ last.op = "none"
    /\ view' = [view EXCEPT !.body =
                   IF Validates(view.args)
                   THEN <<[role |-> view.args.role,
                           text |-> view.args.text,
                           text_format |->
                               FieldOr(view.args, "text_format", "plain"),
                           conversation_id |->
                               FieldOr(view.args, "conversation_id", None),
                           metadata |-> NoDict]>>
                   ELSE <<>>]
    /\ last' = Call("MessageRequest", None, None,
                    IF Validates(view.args) THEN "ok" ELSE "ValidationError",
                    FALSE, FALSE)
    /\ UNCHANGED <<convs, msgs, now, pc, arg, got, res, tx, cache, upd>>

\* ChatMessage(**fields) of app.models, created at clock reading t
ConstructChatMessage(t) ==
    /\ last.op = "none"
    /\ now <= t
    /\ now' = t
    /\ view' = [view EXCEPT !.body =
                   IF Validates(view.args)
                   THEN <<LocalChatMessage(
                             None, FieldOr(view.args, "conversation_id", None),
                             [role |-> view.args.role,
                              text_format |->
                                  FieldOr(view.args, "text_format", "plain"),
                              text |-> view.args.text,
                              metadata |-> NoDict],
                             t)>>
                   ELSE <<>>]
    /\ last' = Call("ChatMessage", None, None,
                    IF Validates(view.args) THEN "ok" ELSE "ValidationError",
                    FALSE, FALSE)
    /\ UNCHANGED <<convs, msgs, pc, arg, got, res, tx, cache, upd>>

NextConstruct ==
    \/ ConstructMessageRequest
    \/ \E t \in Times : ConstructChatMessage(t)

SpecConstruct == InitConstruct /\ [][NextConstruct]_vars

----------------------------------------------------------------------------
(* delete_conversation concurrent with save_message.                       *)
(* A worker makes one call after the other; a call is a save_message (the  *)
(* steps above) or a delete_conversation, whose two DELETE statements run  *)
(* in one transaction. The rows a DELETE has hit stay stored, and locked,  *)
(* until the transaction commits; the foreign key is checked when the      *)
(* conversation row goes.                                                  *)

\* The messages saved while conversations are deleted
RaceMessages ==
    {ChatMessage(mid, cid, c) :
        mid \in MsgIds, cid \in ConvIds,
        c \in {b \in Contents : b.metadata.isNone}}

\* delete_conversation(conversation_id) starts
BeginDelete(w, conversation_id) ==
    /\ pc[w] = "idle" /\ res[w] = "none"
    /\ arg' = [arg EXCEPT ![w] =
                  [NoMessage EXCEPT !.conversation_id = conversation_id]]
    /\ pc' = [pc EXCEPT ![w] = "delete_messages"]
    /\ UNCHANGED <<convs, msgs, now, last, got, res, view, tx, cache, upd>>

\* DELETE FROM ai_assistant_message WHERE conversation_id = ...: the rows
\* committed by now, once no other open transaction holds one of them
DeleteMessages(w) ==
    LET hit == MessagesOf(msgs, arg[w].conversation_id)
    IN /\ pc[w] = "delete_messages"
       /\ \A v \in Workers \ {w} : hit \cap tx[v] = {}
       /\ tx' = [tx EXCEPT ![w] = hit]
       /\ pc' = [pc EXCEPT ![w] = "delete_conversation"]
       /\ UNCHANGED <<convs, msgs, now, last, arg, got, res, view, cache, upd>>

\* DELETE FROM ai_assistant_conversation WHERE conversation_id = ..., and
\* session.commit(). A message committed since the first DELETE still
\* references the conversation: the statement fails on the foreign key, the
\* exception leaves the session block and the transaction is rolled back.
DeleteConversation(w) ==
    LET cid == arg[w].conversation_id
        remaining == [m \in DOMAIN msgs \ tx[w] |-> msgs[m]]
        cs == [c \in DOMAIN convs \ {cid} |-> convs[c]]
        ok == \A m \in DOMAIN remaining : ForeignKeyOk(cs, remaining[m])
    IN /\ pc[w] = "delete_conversation"
       /\ msgs' = IF ok THEN remaining ELSE msgs
       /\ convs' = IF ok THEN cs ELSE convs
       /\ res' = [res EXCEPT ![w] = IF ok THEN "ok" ELSE "IntegrityError"]
       /\ tx' = [tx EXCEPT ![w] = {}]
       /\ pc' = [pc EXCEPT ![w] = "done"]
       /\ UNCHANGED <<now, last, arg, got, view, cache, upd>>

\* The call of the worker has returned and the worker takes the next one
Return(w) ==
    /\ pc[w] = "done"
    /\ pc' = [pc EXCEPT ![w] = "idle"]
    /\ arg' = [arg EXCEPT ![w] = NoMessage]
    /\ got' = [got EXCEPT ![w] = NotFound]
    /\ res' = [res EXCEPT ![w] = "none"]
    /\ UNCHANGED <<convs, msgs, now, last, view, tx, cache, upd>>

NextConcurrentDelete ==
    \/ \E w \in Workers, message \in RaceMessages : Begin(w, message)
    \/ \E w \in Workers : EnsureQuery(w)
    \/ \E w \in Workers, t1, t2 \in Times : EnsureInsert(w, t1, t2)
    \/ \E w \in Workers : Get(w)
    \/ \E w \in Workers : Commit(w)
    \/ \E w \in Workers, conversation_id \in ConvIds :
          BeginDelete(w, conversation_id)
    \/ \E w \in Workers : DeleteMessages(w)
    \/ \E w \in Workers : DeleteConversation(w)
    \/ \E w \in Workers : Return(w)

SpecConcurrentDelete == Init /\ [][NextConcurrentDelete]_vars

----------------------------------------------------------------------------
(* Writes of the storage engine, one at a time, with conversations whose   *)
(* messages carry a conversation_id of their own.                          *)

\* The messages save_message is called with: with and without a usage trace
WriteMessages ==
    {ChatMessage(mid, cid, c) :
        mid \in MsgIds, cid \in ConvIds,
        c \in {b \in Contents : b.metadata.isNone} \cup ListContents}

\* Conversations whose messages carry no conversation_id, the id of the
\* conversation they are saved with, or the id of another one
CarriedConversations ==
    {[conversation_id |-> cid, title |-> s.title, created_at |-> s.created_at,
      updated_at |-> s.updated_at, totals |-> s.totals,
      messages |-> [i \in DOMAIN l |-> [l[i] EXCEPT !.conversation_id = carried]]] :
        cid \in ConvIds, s \in ConversationSamples,
        l \in MessageLists, carried \in ConvIds \cup {None}}

NextWrites ==
    \/ \E message \in WriteMessages, t1, t2 \in Times :
          CallSaveMessage(message, t1, t2)
    \* all statements ran when the commit went through, none when the
    \* storage failed at once
    \/ \E conversation \in CarriedConversations, committed \in BOOLEAN :
          save_conversation(conversation,
              IF committed THEN Len(conversation.messages) + 1 ELSE 0,
              committed)
    \/ \E conversation_id \in ConvIds : delete_conversation(conversation_id)

SpecWrites == Init /\ [][NextWrites]_vars

----------------------------------------------------------------------------
(* Concurrent update_user_state: each worker runs one call; the redis.get   *)
(* and the redis.set of a call are separate commands, and commands of       *)
(* other workers may run between them.                                      *)

\* update_user_state(user_id, updates, ttl) is called
BeginUpdate(w, user_id, updates, ttl) ==
    /\ upd[w].pc = "idle"
    /\ upd' = [upd EXCEPT ![w].pc = "get", ![w].user_id = user_id,
                          ![w].updates = updates, ![w].ttl = ttl]
    /\ UNCHANGED <<convs, msgs, now, last, pc, arg, got, res, view, tx, cache>>

\* current_state = self.get_user_state(user_id)
UpdateGet(w) ==
    /\ upd[w].pc = "get"
    /\ upd' = [upd EXCEPT ![w].pc = "set",
                          ![w].current_state =
                              get_user_state(cache, upd[w].user_id)]
    /\ UNCHANGED <<convs, msgs, now, last, pc, arg, got, res, view, tx, cache>>

\* return self.set_user_state(user_id, updated_state, ttl)
UpdateSet(w) ==
    LET c == upd[w]
    IN /\ c.pc = "set"
       /\ cache' = set_user_state(cache, c.user_id,
                       update_user_state(c.current_state, c.user_id, c.updates),
                       c.ttl)
       /\ upd' = [upd EXCEPT ![w].pc = "done", ![w].result = "True"]
       /\ UNCHANGED <<convs, msgs, now, last, pc, arg, got, res, view, tx>>

\* Redis removes a key whose time to live has run out
Expire(user_id) ==
    LET key == _get_user_key(user_id)
    IN /\ cache[key].present /\ cache[key].ttl > 0
       /\ cache' = [cache EXCEPT ![key] =
                       [present |-> FALSE, data |-> <<>>, ttl |-> 0]]
       /\ UNCHANGED <<convs, msgs, now, last, pc, arg, got, res, view, tx, upd>>

\* The updates give values to some of the fields; ttl is falsy or a number
\* of seconds
NextUserState ==
    \/ \E w \in Workers, user_id \in UserIds, ttl \in {0, 60},
          updates \in UNION {[S -> {"a", "b"}] :
                                S \in SUBSET {"user_name", "persona"}} :
          BeginUpdate(w, user_id, updates, ttl)
    \/ \E w \in Workers : UpdateGet(w)
    \/ \E w \in Workers : UpdateSet(w)
    \/ \E user_id \in UserIds : Expire(user_id)

SpecUserState == Init /\ [][NextUserState]_vars

----------------------------------------------------------------------------
(* Properties *)

\* The step is the call save_message(message)
IsSaveMessage(message) ==
    /\ last'.op = "save_message"
    /\ last'.cid = message.conversation_id
    /\ last'.mid = message.message_id
    /\ \E t1, t2 \in Times : CallSaveMessage(message, t1, t2)

\* Row row holds the values of message in every column but message_id
Holds(row, message) ==
    /\ row.conversation_id = message.conversation_id
    /\ row.role = message.role
    /\ row.text_format = message.text_format
    /\ row.text = message.text
    /\ row.created_at = message.created_at
    /\ row.previous_message_id = message.previous_message_id
    /\ row.model = message.model
    /\ row.llm_model = message.llm_trace.model
    /\ row.input_tokens = message.llm_trace.input_tokens
    /\ row.input_cached_tokens = message.llm_trace.cached_tokens
    /\ row.output_tokens = message.llm_trace.output_tokens
    /\ row.output_reasoning_tokens = message.llm_trace.reasoning_tokens
    /\ row.total_tokens = message.llm_trace.total_tokens
    /\ row.total_cost = message.llm_trace.total_cost
    /\ row.metadata_json.isNull = ~Truthy(message.metadata)
    /\ ~row.metadata_json.isNull =>
           json_loads(row.metadata_json.text) = message.metadata
    /\ row.llm_trace.isNull = message.llm_trace.isNone
    /\ ~row.llm_trace.isNull =>
           trace_loads(row.llm_trace.text) = message.llm_trace

\* C1: in every state reached by storage calls made one at a time, every
\* stored message has a conversation_id that names a stored conversation.
C1_ReferentialIntegrity ==
    \A m \in DOMAIN msgs : msgs[m].conversation_id \in DOMAIN convs

\* A conversation was deleted while messages of another one stay stored
C1_Witness ==
    /\ last.op = "delete_conversation"
    /\ last.touched
    /\ DOMAIN msgs # {}

\* C2: save_message for a message whose conversation_id names no stored
\* conversation creates that conversation with the default title and zero
\* totals and stores the message under it; when the conversation is stored,
\* no conversation is created.
C2_ImplicitCreation ==
    [][\A message \in Messages :
        (message.conversation_id # None /\ IsSaveMessage(message)) =>
            LET cid == message.conversation_id
                mid == message.message_id
            IN IF cid \in DOMAIN convs
               THEN DOMAIN convs' = DOMAIN convs
               ELSE /\ DOMAIN convs' = DOMAIN convs \cup {cid}
                    /\ convs'[cid].title = "New Conversation"
                    /\ convs'[cid].total_input_tokens = 0
                    /\ convs'[cid].total_output_tokens = 0
                    /\ convs'[cid].total_tokens = 0
                    /\ convs'[cid].total_cost = 0
                    /\ mid \in DOMAIN msgs'
                    /\ msgs'[mid].conversation_id = cid]_vars

\* save_message has created a conversation and stored its message under it
C2_Witness ==
    /\ last.op = "save_message"
    /\ last.created
    /\ last.result = "ok"
    /\ last.mid \in DOMAIN msgs
    /\ msgs[last.mid].conversation_id = last.cid

\* C3: POST /messages with an explicit conversation_id that names no stored
\* conversation ends with 404 and leaves both tables as they were.
C3_UnknownConversationNotFound ==
    [][\A request \in Requests :
        (/\ last'.op = "create_new_message"
         /\ last'.cid = request.conversation_id
         /\ request.conversation_id # None
         /\ request.conversation_id \notin DOMAIN convs
         /\ \E gen_mid \in MsgIds, t1 \in Times :
               create_new_message(request, None, gen_mid, t1, t1))
        => /\ last'.result = "404"
           /\ convs' = convs
           /\ msgs' = msgs]_vars

\* A request for an unknown conversation ended with 404 on a store that
\* holds another conversation
C3_Witness ==
    /\ last.op = "create_new_message"
    /\ last.result = "404"
    /\ last.cid \notin DOMAIN convs
    /\ DOMAIN convs # {}

\* C4: create_conversation with an id that is stored fails with the conflict
\* error (ValueError) and leaves the stored row and all messages as they were.
C4_DuplicateIdConflict ==
    [][\A cid \in ConvIds :
        (/\ last'.op = "create_conversation"
         /\ last'.cid = cid
         /\ cid \in DOMAIN convs
         /\ \E conversation_id \in {cid, None}, title \in {DefaultTitle, "T"},
               t \in Times :
               CallCreateConversation(conversation_id, title, cid, t))
        => /\ last'.result = "ValueError"
           /\ convs' = convs
           /\ msgs' = msgs]_vars

\* A creation was refused for a conversation that holds a message
C4_Witness ==
    /\ last.op = "create_conversation"
    /\ last.result = "ValueError"
    /\ MessagesOf(msgs, last.cid) # {}

\* C5: when two save_message calls for different messages of the same
\* not yet stored conversation run concurrently, neither ends with a
\* duplicate-key error, the conversation is stored and so are both messages.
C5_ImplicitCreationRaceFree ==
    (/\ \A w \in Workers : pc[w] = "done"
     /\ \A v, w \in Workers :
           /\ arg[v].conversation_id = arg[w].conversation_id
           /\ v # w => arg[v].message_id # arg[w].message_id
     /\ \A w \in Workers : arg[w].conversation_id # None)
    => \A w \in Workers :
          /\ res[w] # "UniqueViolation"
          /\ arg[w].conversation_id \in DOMAIN convs
          /\ arg[w].message_id \in DOMAIN msgs

\* Every row save_conversation(conversation) writes is stored
AllLanded(cs, ms, conversation) ==
    /\ conversation.conversation_id \in DOMAIN cs
    /\ cs[conversation.conversation_id].title = conversation.title
    /\ cs[conversation.conversation_id].created_at = conversation.created_at
    /\ cs[conversation.conversation_id].updated_at = conversation.updated_at
    /\ cs[conversation.conversation_id].total_input_tokens
          = conversation.totals.total_input_tokens
    /\ cs[conversation.conversation_id].total_output_tokens
          = conversation.totals.total_output_tokens
    /\ cs[conversation.conversation_id].total_tokens
          = conversation.totals.total_tokens
    /\ cs[conversation.conversation_id].total_cost
          = conversation.totals.total_cost
    /\ \A i \in DOMAIN conversation.messages :
          /\ conversation.messages[i].message_id \in DOMAIN ms
          /\ Holds(ms[conversation.messages[i].message_id],
                   [conversation.messages[i] EXCEPT
                       !.conversation_id = conversation.conversation_id])

\* C6: save_conversation either stores the conversation row and every
\* message of the list with the given values, or fails and leaves both
\* tables as they were.
C6_SaveConversationAtomic ==
    [][\A conversation \in Conversations :
        (/\ last'.op = "save_conversation"
         /\ last'.cid = conversation.conversation_id
         /\ \E done \in 0..(Cardinality(MsgIds) + 1), committed \in BOOLEAN :
               save_conversation(conversation, done, committed))
        => \/ /\ last'.result = "ok"
              /\ AllLanded(convs', msgs', conversation)
           \/ /\ last'.result # "ok"
              /\ convs' = convs
              /\ msgs' = msgs]_vars

\* A save_conversation call failed and its conversation is not stored
C6_Witness ==
    /\ last.op = "save_conversation"
    /\ last.result = "StorageError"
    /\ last.cid \notin DOMAIN convs
    /\ DOMAIN msgs # {}

C8_DeleteConversation ==
    [][\A cid \in ConvIds :
        (/\ last'.op = "delete_conversation"
         /\ last'.cid = cid
         /\ delete_conversation(cid))
        => /\ last'.result = "ok"
           /\ get_conversation_history(msgs', cid, FALSE) = {<<>>}
           /\ get_conversation_history(msgs', cid, TRUE) = {<<>>}
           /\ ~ConversationFound(convs', cid)
           /\ cid \notin DOMAIN convs => (convs' = convs /\ msgs' = msgs)]_vars

\* A conversation with messages was deleted, another conversation remains
C8_Witness ==
    /\ last.op = "delete_conversation"
    /\ last.touched
    /\ last.cid \notin DOMAIN convs
    /\ DOMAIN convs # {}

\* C9: a message accepted by save_message is read back by
\* get_conversation_history with the same role, text, text_format and
\* metadata.
C9_RoundTrip ==
    [][\A message \in Messages :
        (IsSaveMessage(message) /\ last'.result = "ok") =>
            \A h \in get_conversation_history(msgs', message.conversation_id,
                                              FALSE) :
                \E i \in DOMAIN h :
                    /\ h[i].message_id = message.message_id
                    /\ h[i].role = message.role
                    /\ h[i].text = message.text
                    /\ h[i].text_format = message.text_format
                    /\ h[i].metadata = message.metadata]_vars

\* C10: a message added to a stored conversation by save_message, at a time
\* when the clock reads later than the conversation's updated_at, leaves the
\* conversation with a later updated_at.
C10_UpdatedAtBumped ==
    [][\A message \in Messages :
        (/\ IsSaveMessage(message)
         /\ last'.result = "ok"
         /\ message.conversation_id \in DOMAIN convs
         /\ message.message_id \notin DOMAIN msgs
         /\ now > convs[message.conversation_id].updated_at)
        => convs'[message.conversation_id].updated_at
              > convs[message.conversation_id].updated_at]_vars

----------------------------------------------------------------------------
(* Properties of the read requests *)

Reverse(s) == [i \in DOMAIN s |-> s[Len(s) + 1 - i]]

\* The messages of conversation_id have pairwise distinct created_at
DistinctCreatedAt(ms, conversation_id) ==
    \A a, b \in MessagesOf(ms, conversation_id) :
        a # b => ms[a].created_at # ms[b].created_at

\* The pair a message is reduced to for the model context
RoleContent(message) == [role |-> message.role, content |-> message.text]

\* C11: two reads of get_conversation_history with the same arguments, with
\* no write between them, return the same sequence (the order of messages of
\* equal created_at is fixed).
C11_StableOrder ==
    [][(/\ last.op = "get_conversation_history"
        /\ last'.op = "get_conversation_history"
        /\ last'.cid = last.cid
        /\ view'.args = view.args)
       => view'.body = view.body]_vars

\* C12: when the messages of a conversation have pairwise distinct
\* created_at, get_conversation_history(id, order_desc=False) is sorted
\* ascending by created_at, holds exactly the stored messages of id, and its
\* reversal is the one result of get_conversation_history(id, order_desc=True).
C12_SortedAndReversible ==
    (/\ last.op = "get_conversation_history"
     /\ ~view.args.order_desc
     /\ DistinctCreatedAt(msgs, last.cid))
    => LET h == view.body
       IN /\ \A i, j \in DOMAIN h : i < j => h[i].created_at < h[j].created_at
          /\ {h[i].message_id : i \in DOMAIN h} = MessagesOf(msgs, last.cid)
          /\ Len(h) = Cardinality(MessagesOf(msgs, last.cid))
          /\ \A i \in DOMAIN h :
                /\ h[i].conversation_id = last.cid
                /\ h[i].role = msgs[h[i].message_id].role
                /\ h[i].text = msgs[h[i].message_id].text
                /\ h[i].created_at = msgs[h[i].message_id].created_at
          /\ get_conversation_history(msgs, last.cid, TRUE) = {Reverse(h)}

\* An ascending read returned two messages of distinct created_at
C12_Witness ==
    /\ last.op = "get_conversation_history"
    /\ ~view.args.order_desc
    /\ DistinctCreatedAt(msgs, last.cid)
    /\ Len(view.body) = 2

\* C13: get_conversation_history_for_agent(id) returns the messages of id in
\* ascending created_at order, and read right after
\* get_conversation_history(id, order_desc=False) it returns that result with
\* each message reduced to role and content.
C13_AgentHistoryIsReducedHistory ==
    [][(/\ last'.op = "get_conversation_history_for_agent"
        /\ last.op = "get_conversation_history"
        /\ ~view.args.order_desc
        /\ last'.cid = last.cid)
       => /\ \E s \in OrderedBy(msgs, MessagesOf(msgs, last'.cid), FALSE) :
                view'.body = [i \in DOMAIN s |->
                                 [role |-> msgs[s[i]].role,
                                  content |-> msgs[s[i]].text]]
          /\ view'.body = [i \in DOMAIN view.body |->
                              RoleContent(view.body[i])]]_vars

\* The conversations have pairwise distinct created_at
DistinctConversationTimes(cs) ==
    \A a, b \in DOMAIN cs : a # b => cs[a].created_at # cs[b].created_at

\* ids are the min(limit, n) most recently created conversations of cs,
\* newest first
MostRecentFirst(ids, cs, limit) ==
    /\ Len(ids) = (IF limit < Cardinality(DOMAIN cs)
                   THEN limit ELSE Cardinality(DOMAIN cs))
    /\ \A i \in DOMAIN ids : ids[i] \in DOMAIN cs
    /\ \A i, j \in DOMAIN ids :
          i < j => cs[ids[i]].created_at > cs[ids[j]].created_at
    /\ \A i \in DOMAIN ids :
          \A c \in DOMAIN cs \ {ids[j] : j \in DOMAIN ids} :
              cs[c].created_at < cs[ids[i]].created_at

\* C14: with conversations of pairwise distinct created_at, the listing with
\* limit L returns the min(L, n) most recently created conversations, newest
\* first, each with its stored columns and an empty message sequence; the
\* ids-only listing returns the ids of the same conversations in that order.
C14_ListMostRecent ==
    DistinctConversationTimes(convs) =>
        /\ last.op = "get_all_conversations" =>
              /\ MostRecentFirst([i \in DOMAIN view.body |->
                                     view.body[i].conversation_id],
                                 convs, view.args.limit)
              /\ \A i \in DOMAIN view.body :
                    /\ view.body[i].messages = <<>>
                    /\ view.body[i].title
                          = convs[view.body[i].conversation_id].title
                    /\ view.body[i].created_at
                          = convs[view.body[i].conversation_id].created_at
        /\ last.op = "list_conversations" =>
              MostRecentFirst(view.body, convs, view.args.limit)

\* A listing with limit 1 returned the newer of two conversations
C14_Witness ==
    /\ last.op = "get_all_conversations"
    /\ DistinctConversationTimes(convs)
    /\ Cardinality(DOMAIN convs) = 2
    /\ view.args.limit = 1
    /\ Len(view.body) = 1

\* C15: GET /conversations/{id} returns the stored conversation with an
\* empty message sequence, or 404 when id is not stored, and does not run
\* the message query.
C15_MetadataWithoutMessageQuery ==
    last.op = "get_conversation_metadata" =>
        /\ IF last.cid \in DOMAIN convs
           THEN /\ last.result = "200"
                /\ view.body = <<ConversationModel(convs[last.cid], <<>>)>>
           ELSE last.result = "404"
        /\ ~view.message_query

\* C20: the export of a stored conversation holds one record per stored
\* message of the conversation, in an order get_conversation returns them;
\* a record has the role of its message, the normalized text, and a metadata
\* field exactly when the message has metadata; the filename holds the
\* conversation id; for an id that is not stored the export ends with 404.
C20_ChatHistoryExport ==
    last.op = "get_chat_history_yaml" =>
        IF last.cid \notin DOMAIN convs
        THEN last.result = "404" /\ view.body = <<>>
        ELSE /\ last.result = "200"
             /\ Len(view.body) = Cardinality(MessagesOf(msgs, last.cid))
             /\ \E k \in DOMAIN view.filename : view.filename[k] = last.cid
             /\ \E c \in get_conversation_with_messages(convs, msgs, last.cid) :
                   /\ Len(view.body) = Len(c.messages)
                   /\ \A i \in DOMAIN view.body :
                         /\ view.body[i].role = c.messages[i].role
                         /\ view.body[i].text
                               = clean_text_to_plain(Chars(c.messages[i].text),
                                                     c.messages[i].text_format)
                         /\ c.messages[i].text_format = "plain" =>
                               view.body[i].text = Chars(c.messages[i].text)
                         /\ ("metadata" \in DOMAIN view.body[i])
                               <=> ~c.messages[i].metadata.isNone
                         /\ "metadata" \in DOMAIN view.body[i] =>
                               view.body[i].metadata = c.messages[i].metadata

\* An export returned a record with metadata and a record without
C20_Witness ==
    /\ last.op = "get_chat_history_yaml"
    /\ last.result = "200"
    /\ \E i, j \in DOMAIN view.body :
          /\ "metadata" \in DOMAIN view.body[i]
          /\ "metadata" \notin DOMAIN view.body[j]
          /\ view.body[i].text = <<"y", "o">>

----------------------------------------------------------------------------
(* Properties of the request orchestrator *)

\* C16: a domain error keeps its category: POST /conversations with a stored
\* id ends with 400; POST /messages ends with 404 for a conversation_id that
\* is not stored and with 400 when the conversation it creates for a request
\* without conversation_id meets a stored id; neither is answered with 500.
C16_ErrorCategories ==
    [][/\ (last'.op = "create_conversation" /\ last'.cid \in DOMAIN convs)
              => create_new_conversation(last'.result) = "400"
       /\ \A request \in Requests, gen_cid \in ConvIds \cup {None} :
            (/\ last'.op = "create_new_message"
             /\ last'.cid = request.conversation_id
             /\ \E gen_mid \in MsgIds, t0, t1 \in Times :
                   create_new_message(request, gen_cid, gen_mid, t0, t1))
            => /\ (/\ request.conversation_id # None
                   /\ request.conversation_id \notin DOMAIN convs)
                      => last'.result = "404"
               /\ (request.conversation_id = None /\ gen_cid \in DOMAIN convs)
                      => last'.result = "400"]_vars

\* C19: POST /messages that meets no missing conversation and no stored id
\* succeeds; without conversation_id it creates exactly one conversation and
\* exactly one message stored under it, with a stored conversation_id it
\* creates no conversation and adds exactly one message to that
\* conversation; the message_id, conversation_id and created_at it returns
\* are those of the stored message.
C19_OrchestratedCreation ==
    [][\A request \in Requests, gen_cid \in ConvIds \cup {None},
          gen_mid \in MsgIds, t1 \in Times :
        (/\ last'.op = "create_new_message"
         /\ last'.cid = request.conversation_id
         /\ \E t0 \in Times :
               create_new_message(request, gen_cid, gen_mid, t0, t1)
         /\ IF request.conversation_id = None
            THEN gen_cid \in ConvIds \ DOMAIN convs
            ELSE request.conversation_id \in DOMAIN convs
         /\ gen_mid \notin DOMAIN msgs)
        => LET cid == IF request.conversation_id = None
                      THEN gen_cid ELSE request.conversation_id
           IN /\ last'.result = "200"
              /\ DOMAIN convs' = DOMAIN convs \cup {cid}
              /\ \A c \in DOMAIN convs : convs'[c] = convs[c]
              /\ DOMAIN msgs' = DOMAIN msgs \cup {gen_mid}
              /\ \A m \in DOMAIN msgs : msgs'[m] = msgs[m]
              /\ last'.mid = gen_mid
              /\ msgs'[gen_mid].conversation_id = cid
              /\ msgs'[gen_mid].created_at = t1]_vars

----------------------------------------------------------------------------
(* Properties of concurrent requests *)

\* C17: when two POST /conversations requests with the same conversation_id
\* have run concurrently, one has ended with 200 and the other with 400,
\* and the conversation is stored.
C17_ConcurrentCreateConflict ==
    (/\ \A w \in Workers : pc[w] = "done"
     /\ \A v, w \in Workers : arg[v].conversation_id = arg[w].conversation_id)
    => /\ \E w \in Workers :
             /\ create_new_conversation(res[w]) = "200"
             /\ \A v \in Workers \ {w} :
                   create_new_conversation(res[v]) = "400"
       /\ \A w \in Workers : arg[w].conversation_id \in DOMAIN convs

\* C18: when two save_message calls with the same message_id run
\* concurrently, each call's commit ends without error and leaves the
\* stored message equal, in every field, to the message of that call (so
\* that the row holds the message of the call that committed last).
C18_LastWriteWins ==
    [][\A w \in Workers :
        (/\ pc[w] = "commit" /\ pc'[w] = "done"
         /\ arg[w].conversation_id # None
         /\ \E v \in Workers \ {w} :
               /\ pc[v] # "idle"
               /\ arg[v].message_id = arg[w].message_id
               /\ arg[v].conversation_id # None)
        => /\ res'[w] = "ok"
           /\ arg[w].message_id \in DOMAIN msgs'
           /\ Holds(msgs'[arg[w].message_id], arg[w])]_vars

(***************************************************************************)
(* Properties of GET /messages *)
(***************************************************************************)

C22_TraceRepresentationsAgree ==
    \A m \in DOMAIN msgs :
        LET row == msgs[m]
        IN  IF ~row.llm_trace.isNull
            THEN LET t == trace_loads(row.llm_trace.text)
                 IN  /\ row.llm_model = t.model
                     /\ row.input_tokens = t.input_tokens
                     /\ row.input_cached_tokens = t.cached_tokens
                     /\ row.output_tokens = t.output_tokens
                     /\ row.output_reasoning_tokens = t.reasoning_tokens
                     /\ row.total_tokens = t.total_tokens
                     /\ row.total_cost = t.total_cost
            ELSE /\ row.llm_model = None
                 /\ row.input_tokens = 0
                 /\ row.input_cached_tokens = 0
                 /\ row.output_tokens = 0
                 /\ row.output_reasoning_tokens = 0
                 /\ row.total_tokens = 0
                 /\ row.total_cost = 0

\* The store holds a message with a trace blob and one without
C22_Witness ==
    /\ last.op \in {"save_message", "save_conversation"}
    /\ \E m \in DOMAIN msgs :
          ~msgs[m].llm_trace.isNull /\ msgs[m].total_tokens > 0
    /\ \E m \in DOMAIN msgs : msgs[m].llm_trace.isNull

----------------------------------------------------------------------------
(* Properties of POST /conversations *)

\* The ids of the pattern prefix-YYYYMMDDHHMMSS-8 hex characters that the ID
\* generator produces
GeneratedIds ==
    {generate_id_with_timestamp(prefix, t, u) :
        prefix \in {"conversation", "message"}, t \in Times, u \in Uuid4s}

\* What every successful creation stores, whatever the id
StoredAsNew(conversation_id, title) ==
    /\ conversation_id \in DOMAIN convs'
    /\ convs'[conversation_id].created_at = convs'[conversation_id].updated_at
    /\ convs'[conversation_id].total_input_tokens = 0
    /\ convs'[conversation_id].total_output_tokens = 0
    /\ convs'[conversation_id].total_tokens = 0
    /\ convs'[conversation_id].total_cost = 0
    /\ MessagesOf(msgs', conversation_id) = {}
    /\ convs'[conversation_id].title =
          (IF title = None THEN DefaultTitle ELSE title)

\* C23: a successful create_conversation stores a conversation with
\* created_at = updated_at, zero usage totals, no messages, and the given
\* title or "New Conversation"; when no id is given, the stored id is one the
\* ID generator produces (prefix-timestamp-8 hex characters).
C23_CreatedConversation ==
    [][\A conversation_id \in ConvIds \cup {None}, title \in {None, "T"},
          u \in Uuid4s, t \in Times :
            (CallCreateNewConversation(conversation_id, title, u, t)
             /\ last'.result = "200")
            => /\ StoredAsNew(last'.cid, title)
               /\ conversation_id = None => last'.cid \in GeneratedIds]_vars

----------------------------------------------------------------------------
(* Properties of the text normalizer *)

\* The characters of a text
CharsOf(text) == {text[i] : i \in DOMAIN text}

\* x occurs in text as a run of adjacent characters
Occurs(x, text) ==
    \E i \in 1..(Len(text) - Len(x) + 1) : SubSeq(text, i, i + Len(x) - 1) = x

\* The texts made of one image within plain text; the characters of the
\* image occur nowhere else in them
ImageTexts == {l \o f \o r : l \in Pads, r \in Pads, f \in ImageMarkup}

Normalized(text_format) ==
    last.op = "clean_text_to_plain" /\ view.args.text_format = text_format

\* C24: markdown normalization drops an image entirely: its alt text, its
\* url and its leading ! are not in the output, and neither are its brackets.
C24_ImagesDropped ==
    (Normalized("markdown") /\ view.args.text \in ImageTexts)
    => CharsOf(view.body) \cap {"!", "a", "u", "[", "]", "(", ")"} = {}

\* The texts made of one piece of inline code, or of one fenced block,
\* within plain text
InlineCodeTexts(x) == {l \o InlineCodeOf(x) \o r : l \in Pads, r \in Pads}
FencedBlockTexts(k) == {l \o FencedBlockOf(k) \o r : l \in Pads, r \in Pads}

\* The inner text of inline code stays in the output, without the backticks
InlineCodeKept ==
    \A x \in CodeTexts :
        (Normalized("markdown") /\ view.args.text \in InlineCodeTexts(x))
        => Occurs(x, view.body) /\ Backquote \notin CharsOf(view.body)

\* The words of a block's content: the content as the final whitespace
\* clean-up of the normalizer leaves it
Words(k) == strip(CollapseFrom(k, 1))

C26_PlainAndVoiceUnchanged ==
    last.op = "clean_text_to_plain" =>
        /\ view.args.text_format \in {"plain", "voice"} =>
              view.body = view.args.text
        /\ last.result = "ok"
        /\ view.body \in Seq(CharsOf(view.args.text) \cup {" ", "&"})
        /\ convs = << >> /\ msgs = << >> /\ now = 0

\* A text with markup has gone through as voice
C26_Witness ==
    /\ Normalized("voice")
    /\ view.args.text = <<"*", "*", "b", "*", "*">>
    /\ view.body = <<"*", "*", "b", "*", "*">>

----------------------------------------------------------------------------
(* Properties of message construction *)

\* C27: constructing a message (MessageRequest or ChatMessage) succeeds for
\* every role among user, assistant, system combined with every text_format
\* among plain, markdown, html, voice, the message taking the given role and
\* format and the format plain when none is given; it fails with a validation
\* error, and makes no message, for every other role or text_format value.
C27_ConstructionValidates ==
    last.op \in {"MessageRequest", "ChatMessage"} =>
        LET fields == view.args
            listed ==
                /\ "role" \in DOMAIN fields
                /\ fields.role \in {"user", "assistant", "system"}
                /\ "text_format" \in DOMAIN fields =>
                      fields.text_format \in
                         {"plain", "markdown", "html", "voice"}
        IN  IF listed
            THEN /\ last.result = "ok"
                 /\ Len(view.body) = 1
                 /\ view.body[1].role = fields.role
                 /\ view.body[1].text_format =
                       (IF "text_format" \in DOMAIN fields
                        THEN fields.text_format ELSE "plain")
            ELSE /\ last.result = "ValidationError"
                 /\ view.body = <<>>

\* A message was made from a listed role and no text_format, and took the
\* format plain
C27_Witness ==
    /\ last.op = "MessageRequest"
    /\ last.result = "ok"
    /\ "text_format" \notin DOMAIN view.args
    /\ view.body[1].role = "assistant"
    /\ view.body[1].text_format = "plain"

----------------------------------------------------------------------------
(* Properties of delete_conversation concurrent with save_message *)

\* Worker w has ended a delete_conversation(conversation_id)
Deleted(w, conversation_id) ==
    /\ pc[w] = "done"
    /\ arg[w].message_id = None
    /\ arg[w].conversation_id = conversation_id

\* Worker w has ended a save_message of a message of the conversation
Saved(w, conversation_id) ==
    /\ pc[w] = "done"
    /\ arg[w].message_id # None
    /\ arg[w].conversation_id = conversation_id

\* C28: no step of a delete_conversation or of a save_message leaves a
\* message whose conversation is missing, and when a delete_conversation(id)
\* and a save_message of a message of conversation id have both ended, either
\* the conversation and the message are both stored, or neither the
\* conversation nor any message of it is.
C28_DeleteVersusSave ==
    /\ \A m \in DOMAIN msgs : msgs[m].conversation_id \in DOMAIN convs
    /\ \A w, v \in Workers, conversation_id \in ConvIds :
          (Deleted(w, conversation_id) /\ Saved(v, conversation_id))
          => \/ /\ conversation_id \in DOMAIN convs
                /\ arg[v].message_id \in MessagesOf(msgs, conversation_id)
             \/ /\ conversation_id \notin DOMAIN convs
                /\ MessagesOf(msgs, conversation_id) = {}

\* The save has failed on the conversation deleted in between: the delete
\* has ended well and nothing of the conversation is stored
C28_Witness ==
    \E w, v \in Workers, conversation_id \in ConvIds :
        /\ Deleted(w, conversation_id) /\ Saved(v, conversation_id)
        /\ res[v] = "IntegrityError"
        /\ res[w] = "ok"
        /\ conversation_id \notin DOMAIN convs

----------------------------------------------------------------------------
(* Properties of failed writes *)

\* C29: save_message leaves the store unchanged when it fails. On a store
\* that was empty before the calls, a save_message that has ended with an
\* error, for a message of a conversation that no other call names, leaves no
\* conversation of that id: the conversation it found missing and created
\* is not stored.
C29_FailedSaveLeavesNoConversation ==
    \A w \in Workers :
        (/\ pc[w] = "done"
         /\ res[w] # "ok"
         /\ arg[w].message_id # None
         /\ arg[w].conversation_id # None
         /\ \A v \in Workers \ {w} :
               arg[v].conversation_id # arg[w].conversation_id)
        => arg[w].conversation_id \notin DOMAIN convs

\* C30: orchestrated message creation without conversation_id leaves the
\* store unchanged when it ends with an error: no new conversation remains.
C30_FailedCreationLeavesStore ==
    [][\A request \in Requests, gen_cid \in ConvIds, gen_mid \in MsgIds,
          t0, t1 \in Times :
            (/\ request.conversation_id = None
             /\ create_new_message(request, gen_cid, gen_mid, t0, t1)
             /\ last'.result # "200")
            => convs' = convs /\ msgs' = msgs]_vars

----------------------------------------------------------------------------
(* Properties of the writes: what they store and what they leave alone *)

\* The step is save_conversation(conversation), ended either way
IsSaveConversation(conversation) ==
    /\ last'.op = "save_conversation"
    /\ last'.cid = conversation.conversation_id
    /\ \E committed \in BOOLEAN :
          save_conversation(conversation,
              IF committed THEN Len(conversation.messages) + 1 ELSE 0,
              committed)

\* The message ids of a message list
Listed(conversation) ==
    {conversation.messages[i].message_id : i \in DOMAIN conversation.messages}

\* Row m of the message table is stored and unchanged by the step
MessageKept(m) == m \in DOMAIN msgs' /\ msgs'[m] = msgs[m]

\* Row c of the conversation table is stored and unchanged by the step
ConversationKept(c) == c \in DOMAIN convs' /\ convs'[c] = convs[c]

\* C31: a save_conversation that goes through stores every message of its
\* list under the conversation's conversation_id, whatever conversation_id
\* the message carried and whatever conversation held it before.
C31_MessagesTakeConversationId ==
    [][\A conversation \in CarriedConversations :
        (IsSaveConversation(conversation) /\ last'.result = "ok")
        => \A m \in Listed(conversation) :
              /\ m \in DOMAIN msgs'
              /\ msgs'[m].conversation_id = conversation.conversation_id]_vars

\* A save_conversation has written over stored messages and holds both
\* messages, while the other conversation is stored without any
C31_Witness ==
    /\ last.op = "save_conversation"
    /\ last.result = "ok"
    /\ last.touched
    /\ MessagesOf(msgs, last.cid) = MsgIds
    /\ \E c \in DOMAIN convs : c # last.cid

\* C32 as stated: save_conversation leaves stored and unchanged the messages
\* of the conversation that are not in its list, every other conversation,
\* and every message of another conversation.
C32_OnlyUpserts ==
    [][\A conversation \in CarriedConversations :
        IsSaveConversation(conversation)
        => /\ \A m \in DOMAIN msgs :
                 (/\ msgs[m].conversation_id = conversation.conversation_id
                  /\ m \notin Listed(conversation)) => MessageKept(m)
           /\ \A c \in DOMAIN convs \ {conversation.conversation_id} :
                 ConversationKept(c)
           /\ \A m \in DOMAIN msgs :
                 msgs[m].conversation_id # conversation.conversation_id
                 => MessageKept(m)]_vars

\* C32 amended: save_conversation leaves stored and unchanged every message
\* whose message_id is not in its list, whichever conversation holds it, and
\* every other conversation row; of the messages of other conversations it
\* changes the listed ones only.
C32_UpsertsListedOnly ==
    [][\A conversation \in CarriedConversations :
        IsSaveConversation(conversation)
        => /\ \A m \in DOMAIN msgs \ Listed(conversation) : MessageKept(m)
           /\ \A c \in DOMAIN convs \ {conversation.conversation_id} :
                 ConversationKept(c)]_vars

\* A save_conversation has written over a stored message of its list while
\* the conversation keeps a message that no list can hold (it has no
\* metadata), next to another stored conversation
C32_Witness ==
    /\ last.op = "save_conversation"
    /\ last.result = "ok"
    /\ last.touched
    /\ \E m \in MessagesOf(msgs, last.cid) : msgs[m].metadata_json.isNull
    /\ \E m \in MessagesOf(msgs, last.cid) : ~msgs[m].metadata_json.isNull
    /\ \E c \in DOMAIN convs : c # last.cid

\* C33: save_message for a message of a stored conversation leaves the
\* conversation's title, created_at and usage totals as they were, whatever
\* usage trace the message carries, and leaves every other conversation and
\* every other message unchanged.
C33_SaveMessageFrame ==
    [][\A message \in WriteMessages :
        (IsSaveMessage(message) /\ message.conversation_id \in DOMAIN convs)
        => LET cid == message.conversation_id
           IN  /\ cid \in DOMAIN convs'
               /\ convs'[cid].title = convs[cid].title
               /\ convs'[cid].created_at = convs[cid].created_at
               /\ convs'[cid].total_input_tokens = convs[cid].total_input_tokens
               /\ convs'[cid].total_output_tokens =
                     convs[cid].total_output_tokens
               /\ convs'[cid].total_tokens = convs[cid].total_tokens
               /\ convs'[cid].total_cost = convs[cid].total_cost
               /\ DOMAIN convs' = DOMAIN convs
               /\ \A c \in DOMAIN convs \ {cid} : ConversationKept(c)
               /\ \A m \in DOMAIN msgs \ {message.message_id} :
                     MessageKept(m)]_vars

\* A message with a usage trace was saved into a conversation that has
\* totals of its own and holds another message
C33_Witness ==
    /\ last.op = "save_message"
    /\ last.result = "ok"
    /\ ~last.created
    /\ ~msgs[last.mid].llm_trace.isNull
    /\ convs[last.cid].total_tokens = SomeTotals.total_tokens
    /\ Cardinality(MessagesOf(msgs, last.cid)) = 2

\* C34: delete_conversation(id) leaves every conversation other than id, and
\* every message whose conversation_id is not id, stored and unchanged.
C34_DeleteFrame ==
    [][\A cid \in ConvIds :
        (/\ last'.op = "delete_conversation"
         /\ last'.cid = cid
         /\ delete_conversation(cid))
        => /\ \A c \in DOMAIN convs \ {cid} : ConversationKept(c)
           /\ \A m \in DOMAIN msgs :
                 msgs[m].conversation_id # cid => MessageKept(m)]_vars

\* A conversation with messages was deleted and another one with a message
\* is stored
C34_Witness ==
    /\ last.op = "delete_conversation"
    /\ last.touched
    /\ last.cid \notin DOMAIN convs
    /\ \E m \in DOMAIN msgs : msgs[m].conversation_id # last.cid

----------------------------------------------------------------------------
(* Properties of the user-state cache *)

\* The state stored for the user, with a new state standing for none
StoredState(keys, user_id) ==
    LET s == get_user_state(keys, user_id)
    IN IF s.isNone THEN UserState([user_id |-> user_id]) ELSE s.state

\* Both workers have finished an update of the same user, on disjoint sets
\* of fields, with keys that do not expire
BothUpdated(w, v) ==
    /\ w # v
    /\ upd'[w].pc = "done" /\ upd'[v].pc = "done"
    /\ upd'[w].user_id = upd'[v].user_id
    /\ DOMAIN upd'[w].updates \cap DOMAIN upd'[v].updates = {}
    /\ upd'[w].ttl = 0 /\ upd'[v].ttl = 0

\* C35: update_user_state(user, updates) changes exactly the fields named in
\* updates and keeps every other field of the stored state, creating a state
\* with only user_id set when none is stored; when two calls for the same user
\* with disjoint field sets have run concurrently, both updates are present in
\* the stored state.
C35_BothUpdatesStored ==
    [][\A w \in Workers : UpdateSet(w) =>
        LET c == upd[w]
            after == StoredState(cache', c.user_id)
        IN /\ \A f \in DOMAIN c.updates : after[f] = c.updates[f]
           /\ get_user_state(cache, c.user_id) = c.current_state =>
                 \A f \in DOMAIN after \ DOMAIN c.updates :
                     after[f] = StoredState(cache, c.user_id)[f]
           /\ \A v \in Workers : BothUpdated(w, v) =>
                 \A f \in DOMAIN upd[v].updates :
                     after[f] = upd[v].updates[f]]_vars

====
